---- MODULE Spec2Model ----
(***************************************************************************)
(* Portfolio backend (src/index.mjs): an Express service whose handlers    *)
(* are sequences of awaited calls to an external auth service and data     *)
(* store.  Every awaited call is one atomic step of the request that makes *)
(* it; the synchronous code that follows the call, up to the next await or *)
(* the response, belongs to the same step.  Requests interleave freely at  *)
(* their awaits.                                                           *)
(***************************************************************************)
EXTENDS Integers, Sequences, FiniteSets, TLC

VARIABLES
    profiles,      \* table "profiles"
    experiences,   \* table "experiences"
    projects,      \* table "projects"
    parts,         \* table "project_parts"
    nextId,        \* the store's serial id generators, one per table
    schemaUnique,  \* whether the store's schema declares profiles.user_id unique
    accounts,      \* the users the auth service has an account for
    passwords,     \* the password the auth service holds for each user
    req,           \* the requests: input, position, locals, response
    faults         \* number of failures the external service has answered so far

vars == <<profiles, experiences, projects, parts, nextId, schemaUnique, accounts, passwords,
          req, faults>>

tables == <<profiles, experiences, projects, parts>>

-----------------------------------------------------------------------------
(* Bounds *)

MaxFaults == 1     \* failures the external service answers in one behaviour
MaxOrder == 2      \* largest display-order a caller supplies
MaxRows == 2       \* most experiences, and parts, a drawn store holds
MaxTime == 2       \* latest reading of the clock
MaxStamp == 3      \* latest updated_at a drawn profile carries

\* The requests of one behaviour; they may overlap in any way.
Slots == {1, 2}
Users == {"A", "B"}
Null == "null"

-----------------------------------------------------------------------------
(* Values of the JavaScript code *)

\* `!x` for the strings the handlers test: undefined/null and "" are falsy.
Falsy(x) == x = Null \/ x = ""

Max(S) == CHOOSE m \in S : \A x \in S : x <= m

\* parseInt(s, 10) on a path parameter, given as its characters: the value of
\* the longest prefix of decimal digits, NaN when there is none.
NaN == 0 - 1

Digit(c) ==
    CASE c = "0" -> 0 [] c = "1" -> 1 [] c = "2" -> 2 [] c = "3" -> 3 [] c = "4" -> 4
      [] c = "5" -> 5 [] c = "6" -> 6 [] c = "7" -> 7 [] c = "8" -> 8 [] c = "9" -> 9
      [] OTHER -> NaN

RECURSIVE DigitsValue(_, _)
DigitsValue(s, acc) ==
    IF s = <<>> \/ Digit(Head(s)) = NaN THEN acc
    ELSE DigitsValue(Tail(s), 10 * acc + Digit(Head(s)))

ParseInt(s) == IF s = <<>> \/ Digit(Head(s)) = NaN THEN NaN ELSE DigitsValue(s, 0)

\* All orderings of a finite set of rows.
RECURSIVE Perms(_)
Perms(S) ==
    IF S = {} THEN {<<>>}
    ELSE UNION {{<<x>> \o q : q \in Perms(S \ {x})} : x \in S}

NonDecreasing(q) == \A i \in 1..(Len(q) - 1) : q[i].order_index <= q[i + 1].order_index

\* A grouping that skips the comparison of project_id: a variant in which C26
\* does not hold.
SelectSeq2Unkeyed(q, pid) == q

RECURSIVE SelectSeq2(_, _)
SelectSeq2(q, pid) ==
    IF q = <<>> THEN <<>>
    ELSE IF Head(q).project_id = pid THEN <<Head(q)>> \o SelectSeq2(Tail(q), pid)
    ELSE SelectSeq2(Tail(q), pid)

-----------------------------------------------------------------------------
(* The external auth service *)

\* Access tokens the service has issued, and one it does not know.
TokenOf(u) == IF u = "A" THEN "tokA" ELSE "tokB"
UnknownToken == "tokExpired"

\* supabase.auth.getUser(token): the user of a token of one of its accounts.
AuthGetUser(token) ==
    IF \E u \in accounts : token = TokenOf(u)
    THEN [user |-> (CHOOSE u \in accounts : token = TokenOf(u)), error |-> FALSE]
    ELSE [user |-> Null, error |-> TRUE]

\* Authorization header values, as the pieces between and including spaces.
NoHeader == <<>>
BearerHeader(tok) == <<"Bearer", " ", tok>>
BasicHeader(tok) == <<"Basic", " ", tok>>
LowerHeader(tok) == <<"bearer", " ", tok>>

\* A guard that only looks for a scheme and a space: a variant in which C6
\* does not hold.
StartsWithAnyScheme(h) == Len(h) >= 2 /\ h[2] = " "

\* authHeader.startsWith("Bearer ")
StartsWithBearer(h) == Len(h) >= 2 /\ h[1] = "Bearer" /\ h[2] = " "

\* authHeader.split(" ")[1]
SplitToken(h) == IF Len(h) >= 3 /\ h[3] # " " THEN h[3] ELSE ""

-----------------------------------------------------------------------------
(* The external data store: the queries the handlers issue *)

\* .maybeSingle(): no row is data null, one row is that row, more is an error.
MaybeSingle(rows) ==
    IF rows = {} THEN [data |-> Null, error |-> FALSE]
    ELSE IF Cardinality(rows) = 1 THEN [data |-> CHOOSE r \in rows : TRUE, error |-> FALSE]
    ELSE [data |-> Null, error |-> TRUE]

\* The lookup with .eq() on a column that never holds a user id: a variant in
\* which C5 does not hold.
ProfilesOfUserWrongColumn(uid) == {p \in profiles : p.first_name = uid}

\* from("profiles").select("*").eq("user_id", userId)
ProfilesOfUser(uid) == {p \in profiles : p.user_id = uid}

\* An insert that leaves user_id out: a variant in which C17 does not hold.
NewProfileRowNoOwner(uid) ==
    [id |-> nextId.profiles, user_id |-> Null, first_name |-> "", last_name |-> "",
     about |-> "", avatar_url |-> Null, is_featured |-> FALSE, updated_at |-> 0]

\* The row from("profiles").insert({user_id, first_name: "", last_name: "", about: ""})
\* stores; the columns the insert omits take the schema's defaults.
NewProfileRow(uid) ==
    [id |-> nextId.profiles, user_id |-> uid, first_name |-> "", last_name |-> "",
     about |-> "", avatar_url |-> Null, is_featured |-> FALSE, updated_at |-> 0]

\* A unique constraint on profiles.user_id rejects a second row of the user.
ProfileInsertConflicts(uid) == schemaUnique /\ ProfilesOfUser(uid) # {}

\* .eq("profile_id", profileId).order("order_index", {ascending: true}): the
\* store answers the rows in some ascending order (ties in any order).
ExperiencesAsc(pid) ==
    {q \in Perms({e \in experiences : e.profile_id = pid}) : NonDecreasing(q)}

ProjectsAsc(pid) ==
    {q \in Perms({p \in projects : p.profile_id = pid}) : NonDecreasing(q)}

\* from("project_parts").select("*").in("project_id", projectIds).order(...)
PartsAsc(pids) ==
    {q \in Perms({t \in parts : t.project_id \in pids}) : NonDecreasing(q)}

RECURSIVE Reverse(_)
Reverse(q) == IF q = <<>> THEN <<>> ELSE Reverse(Tail(q)) \o <<Head(q)>>

\* The grouping with unshift() in place of push(): a variant in which C8 does
\* not hold.
AttachPartsUnshift(projs, fetched) ==
    [i \in DOMAIN projs |->
        [id |-> projs[i].id, profile_id |-> projs[i].profile_id, title |-> projs[i].title,
         subtitle |-> projs[i].subtitle, cover_image_url |-> projs[i].cover_image_url,
         order_index |-> projs[i].order_index,
         parts |-> Reverse(SelectSeq2(fetched, projs[i].id))]]

\* partsByProject[part.project_id].push(part); projects.map(p => ({...p, parts}))
AttachParts(projs, fetched) ==
    [i \in DOMAIN projs |->
        [id |-> projs[i].id, profile_id |-> projs[i].profile_id, title |-> projs[i].title,
         subtitle |-> projs[i].subtitle, cover_image_url |-> projs[i].cover_image_url,
         order_index |-> projs[i].order_index,
         parts |-> SelectSeq2(fetched, projs[i].id)]]

-----------------------------------------------------------------------------
(* Requests *)

\* The handler's `profile` before it is assigned.
NoProfile ==
    [id |-> 0, user_id |-> Null, first_name |-> "", last_name |-> "",
     about |-> "", avatar_url |-> Null, is_featured |-> FALSE, updated_at |-> 0]

\* The handler's `project` before it is assigned.
NoProject ==
    [id |-> 0, profile_id |-> 0, title |-> Null, subtitle |-> Null,
     cover_image_url |-> Null, order_index |-> 0]

NoOut == [t |-> "none"]
ErrorOut(msg) == [t |-> "error", error |-> msg]

\* A request slot before its request arrives.
IdleReq ==
    [kind |-> "none", pc |-> "idle", hdr |-> <<>>, id |-> <<>>, body |-> <<>>,
     hasParts |-> FALSE, partsIn |-> <<>>,
     user |-> Null, profile |-> NoProfile, fin |-> 0, seen |-> {},
     exps |-> <<>>, projs |-> <<>>, project |-> NoProject,
     status |-> 0, out |-> NoOut,
     authCalls |-> 0, storeCalls |-> 0, failed |-> FALSE, target |-> "none",
     answers |-> <<>>, erredAt |-> {}, featured |-> <<>>]

Respond(r, code, o) == [r EXCEPT !.pc = "done", !.status = code, !.out = o]

\* One more call to the data store by request r; `fail` tells whether the
\* store answered it with an error (the positions of the calls that erred are
\* kept for the properties).
StoreCall(r, fail) ==
    [r EXCEPT !.storeCalls = @ + 1, !.failed = @ \/ fail,
              !.erredAt = IF fail THEN @ \cup {r.pc} ELSE @]

\* The outcomes the external service may give a call: an answer, or (while the
\* behaviour's budget of failures lasts) an error.
Outcomes == IF faults < MaxFaults THEN {FALSE, TRUE} ELSE {FALSE}

Count(fail) == IF fail THEN faults + 1 ELSE faults

\* The request that arrives takes the next free slot.
Arrive(s, r) ==
    /\ req[s].pc = "idle"
    /\ \A z \in Slots : z < s => req[z].pc # "idle"
    /\ req' = [req EXCEPT ![s] = r]
    /\ UNCHANGED <<tables, nextId, schemaUnique, accounts, passwords, faults>>

NewReq(kind, hdr, id, body, hasParts, partsIn) ==
    [IdleReq EXCEPT !.kind = kind, !.pc = "auth", !.hdr = hdr, !.id = id, !.body = body,
                    !.hasParts = hasParts, !.partsIn = partsIn]

\* One more call to the auth service by request r, answered with `answer` (the
\* answers are kept for the properties; the handlers do not keep them).
AuthCall(r, fail, answer) ==
    [r EXCEPT !.authCalls = @ + 1, !.failed = @ \/ fail, !.answers = Append(@, answer)]

\* Whose row a path id named when the request's scoped statement ran (kept
\* for the properties; the handlers do not compute it).
Classify(rows, id, pid) ==
    IF \E x \in rows : x.id = id /\ x.profile_id = pid THEN "own"
    ELSE IF \E x \in rows : x.id = id THEN "foreign"
    ELSE "absent"

Has(body, f) == f \in DOMAIN body

Field(body, f) == IF Has(body, f) THEN body[f] ELSE Null

-----------------------------------------------------------------------------
(* requireAuth *)

\* The first pc of the handler behind the guard.
HandlerEntry(kind) ==
    IF kind \in {"getPortfolio", "postExperience", "putExperience", "deleteExperience",
                 "postProject", "putProject", "deleteProject"}
    THEN "prov_select"
    ELSE "handler"

\* The guard's code: the header test, the call to the auth service, next().
GuardCheck(s) ==
    /\ req[s].pc = "auth"
    /\ UNCHANGED <<tables, nextId, schemaUnique, accounts, passwords>>
    /\ IF ~StartsWithBearer(req[s].hdr)
       THEN /\ req' = [req EXCEPT ![s] =
                    Respond(@, 401, ErrorOut("Missing Authorization header"))]
            /\ UNCHANGED faults
       ELSE \E fail \in Outcomes :
            LET res == AuthGetUser(SplitToken(req[s].hdr))
                r1 == [req[s] EXCEPT !.authCalls = @ + 1, !.failed = @ \/ fail]
            IN /\ faults' = Count(fail)
               /\ IF fail \/ res.error \/ res.user = Null
                  THEN req' = [req EXCEPT ![s] =
                           Respond(r1, 401, ErrorOut("Invalid or expired token"))]
                  ELSE req' = [req EXCEPT ![s] =
                           [r1 EXCEPT !.user = res.user, !.pc = HandlerEntry(r1.kind)]]

\* A guard that trusts a header it has accepted before without asking the auth
\* service again: a variant in which C7 does not hold.
RequireAuthCached(s) ==
    IF \E z \in Slots : z # s /\ req[z].user # Null /\ req[z].hdr = req[s].hdr
    THEN /\ req[s].pc = "auth"
         /\ UNCHANGED <<tables, nextId, schemaUnique, accounts, passwords, faults>>
         /\ \E z \in Slots :
               /\ z # s /\ req[z].user # Null /\ req[z].hdr = req[s].hdr
               /\ req' = [req EXCEPT ![s] =
                      [@ EXCEPT !.user = req[z].user, !.pc = HandlerEntry(req[s].kind)]]
    ELSE GuardCheck(s)

RequireAuth(s) == GuardCheck(s)

-----------------------------------------------------------------------------
(* getOrCreateProfileByUserId, and the handlers' code up to their next await *)

InternalError(r) == Respond(r, 500, ErrorOut("Internal server error"))

\* What the caller does when getOrCreateProfileByUserId throws: the handlers'
\* catch block answers 500; register logs the error and answers its token.
ProfileThrown(r) ==
    IF r.kind = "register"
    THEN Respond(r, 200, [t |-> "registered", token |-> TokenOf(r.user), user |-> r.user])
    ELSE InternalError(r)

\* The entry with only the position tested: a variant in which C14 does not
\* hold.
PostExperienceEntryPositionOnly(r) ==
    IF Falsy(Field(r.body, "position"))
    THEN Respond(r, 400, ErrorOut("company and position are required"))
    ELSE IF Has(r.body, "order_index")
         THEN [r EXCEPT !.fin = r.body["order_index"], !.pc = "exp_insert"]
         ELSE [r EXCEPT !.fin = 1, !.pc = "exp_last"]

\* POST /api/me/experiences, from the profile to the first store call.
PostExperienceEntry(r) ==
    IF Falsy(Field(r.body, "company")) \/ Falsy(Field(r.body, "position"))
    THEN Respond(r, 400, ErrorOut("company and position are required"))
    ELSE IF Has(r.body, "order_index")
         THEN [r EXCEPT !.fin = r.body["order_index"], !.pc = "exp_insert"]
         ELSE [r EXCEPT !.fin = 1, !.pc = "exp_last"]

\* POST /api/me/projects, from the profile to the first store call.
PostProjectEntry(r) ==
    IF Falsy(Field(r.body, "title"))
    THEN Respond(r, 400, ErrorOut("title is required"))
    ELSE IF Has(r.body, "order_index")
         THEN [r EXCEPT !.fin = r.body["order_index"], !.pc = "proj_insert"]
         ELSE [r EXCEPT !.fin = 1, !.pc = "proj_last"]

\* The handler continues with the profile getOrCreateProfileByUserId returned.
ProfileReturned(r, profile) ==
    LET r1 == [r EXCEPT !.profile = profile]
    IN CASE r.kind = "getPortfolio" -> [r1 EXCEPT !.pc = "pf_exps"]
         [] r.kind = "postExperience" -> PostExperienceEntry(r1)
         [] r.kind = "putExperience" -> [r1 EXCEPT !.pc = "exp_update"]
         [] r.kind = "deleteExperience" -> [r1 EXCEPT !.pc = "exp_delete"]
         [] r.kind = "postProject" -> PostProjectEntry(r1)
         [] r.kind = "putProject" -> [r1 EXCEPT !.pc = "proj_update"]
         [] r.kind = "deleteProject" -> [r1 EXCEPT !.pc = "proj_del_parts"]
         [] r.kind = "register" ->
                Respond(r1, 200, [t |-> "registered", token |-> TokenOf(r.user),
                                  user |-> r.user])

\* select("*").eq("user_id", userId).maybeSingle()
ProfileSelect(s) ==
    /\ req[s].pc = "prov_select"
    /\ UNCHANGED <<tables, nextId, schemaUnique, accounts, passwords>>
    /\ \E fail \in Outcomes :
        LET res == MaybeSingle(ProfilesOfUser(req[s].user))
            r1 == StoreCall(req[s], fail \/ res.error)
        IN /\ faults' = Count(fail)
           /\ IF fail \/ res.error
              THEN req' = [req EXCEPT ![s] = ProfileThrown(r1)]
              ELSE IF ProfilesOfUser(req[s].user) = {}
                   THEN req' = [req EXCEPT ![s] = [r1 EXCEPT !.pc = "prov_insert"]]
                   ELSE req' = [req EXCEPT ![s] = ProfileReturned(r1, res.data)]

\* insert({user_id, first_name: "", last_name: "", about: ""}).select("*").maybeSingle()
ProfileInsert(s) ==
    /\ req[s].pc = "prov_insert"
    /\ UNCHANGED <<experiences, projects, parts, schemaUnique, accounts, passwords>>
    /\ \E fail \in Outcomes :
        LET conflict == ProfileInsertConflicts(req[s].user)
            r1 == StoreCall(req[s], fail \/ conflict)
            row == NewProfileRow(req[s].user)
        IN /\ faults' = Count(fail)
           /\ IF fail \/ conflict
              THEN /\ req' = [req EXCEPT ![s] = ProfileThrown(r1)]
                   /\ UNCHANGED <<profiles, nextId>>
              ELSE /\ profiles' = profiles \cup {row}
                   /\ nextId' = [nextId EXCEPT !.profiles = @ + 1]
                   /\ req' = [req EXCEPT ![s] = ProfileReturned(r1, row)]

-----------------------------------------------------------------------------
(* GET /api/me/portfolio *)

PortfolioOut(r, exps, projs) ==
    [t |-> "portfolio", profile |-> r.profile, experiences |-> exps, projects |-> projs]

PortfolioExperiences(s) ==
    /\ req[s].pc = "pf_exps"
    /\ UNCHANGED <<tables, nextId, schemaUnique, accounts, passwords>>
    /\ \E fail \in Outcomes :
        LET r1 == StoreCall(req[s], fail)
        IN /\ faults' = Count(fail)
           /\ IF fail
              THEN req' = [req EXCEPT ![s] = Respond(r1, 500, ErrorOut("upstream"))]
              ELSE \E q \in ExperiencesAsc(r1.profile.id) :
                       req' = [req EXCEPT ![s] = [r1 EXCEPT !.exps = q, !.pc = "pf_projs"]]

PortfolioProjects(s) ==
    /\ req[s].pc = "pf_projs"
    /\ UNCHANGED <<tables, nextId, schemaUnique, accounts, passwords>>
    /\ \E fail \in Outcomes :
        LET r1 == StoreCall(req[s], fail)
        IN /\ faults' = Count(fail)
           /\ IF fail
              THEN req' = [req EXCEPT ![s] = Respond(r1, 500, ErrorOut("upstream"))]
              ELSE \E q \in ProjectsAsc(r1.profile.id) :
                       IF Len(q) > 0
                       THEN req' = [req EXCEPT ![s] = [r1 EXCEPT !.projs = q, !.pc = "pf_parts"]]
                       ELSE req' = [req EXCEPT ![s] =
                                Respond(r1, 200, PortfolioOut(r1, r1.exps, q))]

PortfolioParts(s) ==
    /\ req[s].pc = "pf_parts"
    /\ UNCHANGED <<tables, nextId, schemaUnique, accounts, passwords>>
    /\ \E fail \in Outcomes :
        LET r1 == StoreCall(req[s], fail)
            projectIds == {req[s].projs[i].id : i \in DOMAIN req[s].projs}
        IN /\ faults' = Count(fail)
           /\ IF fail
              THEN req' = [req EXCEPT ![s] = Respond(r1, 500, ErrorOut("upstream"))]
              ELSE \E q \in PartsAsc(projectIds) :
                       req' = [req EXCEPT ![s] =
                           Respond(r1, 200, PortfolioOut(r1, r1.exps, AttachParts(r1.projs, q)))]

-----------------------------------------------------------------------------
(* Experiences: POST, PUT, DELETE /api/me/experiences *)

ExperienceFields == {"company", "position", "start_date", "end_date", "description",
                     "order_index"}

\* An update object that never carries order_index: a variant in which C30
\* does not hold.
UpdateDataWithoutOrder(body, fields) ==
    [f \in (DOMAIN body) \cap (fields \ {"order_index"}) |-> body[f]]

\* The object a PUT hands to update(): the named fields of the body, the
\* undefined ones deleted.
UpdateData(body, fields) == [f \in (DOMAIN body) \cap fields |-> body[f]]

\* An update that writes the whole object, the omitted fields as empty: a
\* variant in which C10 does not hold.
ApplyUpdateReplacing(row, data) ==
    [f \in DOMAIN row |->
        IF f \in DOMAIN data THEN data[f]
        ELSE IF f \in {"id", "profile_id"} THEN row[f]
        ELSE IF f = "order_index" THEN 0
        ELSE Null]

\* The store's update of one row: the columns of the object, no other.
ApplyUpdate(row, data) ==
    [f \in DOMAIN row |-> IF f \in DOMAIN data THEN data[f] ELSE row[f]]

\* select("order_index").eq("profile_id", profileId).order(desc).limit(1)
LastExperienceOrders(pid) == {e.order_index : e \in {x \in experiences : x.profile_id = pid}}

\* finalOrderIndex after the lookup of the last row answered `orders`.
NextOrderIndex(orders) == IF orders = {} THEN 1 ELSE Max(orders) + 1

NewExperienceRow(r) ==
    [id |-> nextId.experiences, profile_id |-> r.profile.id,
     company |-> Field(r.body, "company"), position |-> Field(r.body, "position"),
     start_date |-> Field(r.body, "start_date"), end_date |-> Field(r.body, "end_date"),
     description |-> Field(r.body, "description"), order_index |-> r.fin]

ExperienceLast(s) ==
    /\ req[s].pc = "exp_last"
    /\ UNCHANGED <<tables, nextId, schemaUnique, accounts, passwords>>
    /\ \E fail \in Outcomes :
        LET r1 == StoreCall(req[s], fail)
            orders == LastExperienceOrders(r1.profile.id)
        IN /\ faults' = Count(fail)
           /\ req' = [req EXCEPT ![s] =
                  [r1 EXCEPT !.pc = "exp_insert", !.seen = orders,
                             !.fin = IF fail THEN 1 ELSE NextOrderIndex(orders)]]

\* An insert the store turns down when the profile already holds the
\* display-order: a variant in which C28 does not hold.
ExperienceInsertUniqueOrder(s) ==
    /\ req[s].pc = "exp_insert"
    /\ UNCHANGED <<profiles, projects, parts, schemaUnique, accounts, passwords>>
    /\ \E fail \in Outcomes :
        LET r1 == StoreCall(req[s], fail)
            row == NewExperienceRow(r1)
            taken == \E e \in experiences :
                        e.profile_id = row.profile_id /\ e.order_index = row.order_index
        IN /\ faults' = Count(fail)
           /\ IF fail \/ taken
              THEN /\ req' = [req EXCEPT ![s] = Respond(r1, 500, ErrorOut("upstream"))]
                   /\ UNCHANGED <<experiences, nextId>>
              ELSE /\ experiences' = experiences \cup {row}
                   /\ nextId' = [nextId EXCEPT !.experiences = @ + 1]
                   /\ req' = [req EXCEPT ![s] = Respond(r1, 201, [t |-> "row", row |-> row])]

ExperienceInsert(s) ==
    /\ req[s].pc = "exp_insert"
    /\ UNCHANGED <<profiles, projects, parts, schemaUnique, accounts, passwords>>
    /\ \E fail \in Outcomes :
        LET r1 == StoreCall(req[s], fail)
            row == NewExperienceRow(r1)
        IN /\ faults' = Count(fail)
           /\ IF fail
              THEN /\ req' = [req EXCEPT ![s] = Respond(r1, 500, ErrorOut("upstream"))]
                   /\ UNCHANGED <<experiences, nextId>>
              ELSE /\ experiences' = experiences \cup {row}
                   /\ nextId' = [nextId EXCEPT !.experiences = @ + 1]
                   /\ req' = [req EXCEPT ![s] = Respond(r1, 201, [t |-> "row", row |-> row])]

\* update(updateData).eq("id", id).eq("profile_id", profileId)
ExperienceUpdateTarget(id, pid) == {e \in experiences : e.id = id /\ e.profile_id = pid}

ExperienceUpdate(s) ==
    /\ req[s].pc = "exp_update"
    /\ UNCHANGED <<profiles, projects, parts, nextId, schemaUnique, accounts, passwords>>
    /\ \E fail \in Outcomes :
        LET id == ParseInt(req[s].id)
            bad == fail \/ id = NaN
            r1 == [StoreCall(req[s], bad) EXCEPT
                      !.target = Classify(experiences, id, req[s].profile.id)]
            hit == ExperienceUpdateTarget(id, r1.profile.id)
            data == UpdateData(r1.body, ExperienceFields)
            new == {ApplyUpdate(e, data) : e \in hit}
        IN /\ faults' = Count(fail)
           /\ IF bad
              THEN /\ req' = [req EXCEPT ![s] = Respond(r1, 500, ErrorOut("upstream"))]
                   /\ UNCHANGED experiences
              ELSE /\ experiences' = (experiences \ hit) \cup new
                   /\ IF new = {}
                      THEN req' = [req EXCEPT ![s] =
                               Respond(r1, 404, ErrorOut("Experience not found"))]
                      ELSE req' = [req EXCEPT ![s] =
                               Respond(r1, 200, [t |-> "row", row |-> CHOOSE e \in new : TRUE])]

\* delete().eq("id", id).eq("profile_id", profileId)
ExperienceDeleteTarget(id, pid) == {e \in experiences : e.id = id /\ e.profile_id = pid}

ExperienceDelete(s) ==
    /\ req[s].pc = "exp_delete"
    /\ UNCHANGED <<profiles, projects, parts, nextId, schemaUnique, accounts, passwords>>
    /\ \E fail \in Outcomes :
        LET id == ParseInt(req[s].id)
            bad == fail \/ id = NaN
            r1 == [StoreCall(req[s], bad) EXCEPT
                      !.target = Classify(experiences, id, req[s].profile.id)]
        IN /\ faults' = Count(fail)
           /\ IF bad
              THEN /\ req' = [req EXCEPT ![s] = Respond(r1, 500, ErrorOut("upstream"))]
                   /\ UNCHANGED experiences
              ELSE /\ experiences' = experiences \ ExperienceDeleteTarget(id, r1.profile.id)
                   /\ req' = [req EXCEPT ![s] = Respond(r1, 200, [t |-> "success"])]

-----------------------------------------------------------------------------
(* Projects and their parts: POST, PUT, DELETE /api/me/projects *)

ProjectFields == {"title", "subtitle", "cover_image_url", "order_index"}

\* `x || null` on a part's field
OrNull(x) == IF Falsy(x) THEN Null ELSE x

\* rowsToInsert = partsInput.map((p, idx) => ({project_id, ..., order_index})),
\* with the ids the store gives the rows.
PartRows(partsIn, projectId) ==
    {[id |-> nextId.parts + idx - 1, project_id |-> projectId,
      title |-> OrNull(Field(partsIn[idx], "title")),
      content |-> OrNull(Field(partsIn[idx], "content")),
      image_url |-> OrNull(Field(partsIn[idx], "image_url")),
      link_url |-> OrNull(Field(partsIn[idx], "link_url")),
      kind |-> OrNull(Field(partsIn[idx], "kind")),
      order_index |-> IF Has(partsIn[idx], "order_index")
                      THEN partsIn[idx]["order_index"] ELSE idx] : idx \in DOMAIN partsIn}

\* .select("*").order("order_index", {ascending: true}) of a set of part rows
RowsAsc(rows) == {q \in Perms(rows) : NonDecreasing(q)}

ProjectOut(project, partSeq) == [t |-> "project", row |-> project, parts |-> partSeq]

LastProjectOrders(pid) == {p.order_index : p \in {x \in projects : x.profile_id = pid}}

NewProjectRow(r) ==
    [id |-> nextId.projects, profile_id |-> r.profile.id, title |-> Field(r.body, "title"),
     subtitle |-> Field(r.body, "subtitle"),
     cover_image_url |-> Field(r.body, "cover_image_url"), order_index |-> r.fin]

ProjectLast(s) ==
    /\ req[s].pc = "proj_last"
    /\ UNCHANGED <<tables, nextId, schemaUnique, accounts, passwords>>
    /\ \E fail \in Outcomes :
        LET r1 == StoreCall(req[s], fail)
            orders == LastProjectOrders(r1.profile.id)
        IN /\ faults' = Count(fail)
           /\ req' = [req EXCEPT ![s] =
                  [r1 EXCEPT !.pc = "proj_insert", !.seen = orders,
                             !.fin = IF fail THEN 1 ELSE NextOrderIndex(orders)]]

ProjectInsert(s) ==
    /\ req[s].pc = "proj_insert"
    /\ UNCHANGED <<profiles, experiences, parts, schemaUnique, accounts, passwords>>
    /\ \E fail \in Outcomes :
        LET r1 == StoreCall(req[s], fail)
            row == NewProjectRow(r1)
        IN /\ faults' = Count(fail)
           /\ IF fail
              THEN /\ req' = [req EXCEPT ![s] = Respond(r1, 500, ErrorOut("upstream"))]
                   /\ UNCHANGED <<projects, nextId>>
              ELSE /\ projects' = projects \cup {row}
                   /\ nextId' = [nextId EXCEPT !.projects = @ + 1]
                   /\ IF r1.hasParts /\ Len(r1.partsIn) > 0
                      THEN req' = [req EXCEPT ![s] =
                               [r1 EXCEPT !.project = row, !.pc = "proj_ins_parts"]]
                      ELSE req' = [req EXCEPT ![s] =
                               Respond([r1 EXCEPT !.project = row], 201, ProjectOut(row, <<>>))]

\* from("project_parts").insert(rowsToInsert).select("*").order(asc), in POST
\* (answers 201) and in PUT (answers 200); an error is logged, parts stays [].
PartsInsert(s, pc, code) ==
    /\ req[s].pc = pc
    /\ UNCHANGED <<profiles, experiences, projects, schemaUnique, accounts, passwords>>
    /\ \E fail \in Outcomes :
        LET r1 == StoreCall(req[s], fail)
            rows == PartRows(r1.partsIn, r1.project.id)
        IN /\ faults' = Count(fail)
           /\ IF fail
              THEN /\ req' = [req EXCEPT ![s] = Respond(r1, code, ProjectOut(r1.project, <<>>))]
                   /\ UNCHANGED <<parts, nextId>>
              ELSE /\ parts' = parts \cup rows
                   /\ nextId' = [nextId EXCEPT !.parts = @ + Len(r1.partsIn)]
                   /\ \E q \in RowsAsc(rows) :
                          req' = [req EXCEPT ![s] = Respond(r1, code, ProjectOut(r1.project, q))]

ProjectInsertParts(s) == PartsInsert(s, "proj_ins_parts", 201)

\* The update without its .eq("profile_id", profileId): a variant in which C3
\* does not hold.
ProjectUpdateTargetAnyOwner(id, pid) == {p \in projects : p.id = id}

\* update(updateData).eq("id", projectId).eq("profile_id", profileId)
ProjectUpdateTarget(id, pid) == {p \in projects : p.id = id /\ p.profile_id = pid}

ProjectUpdate(s) ==
    /\ req[s].pc = "proj_update"
    /\ UNCHANGED <<profiles, experiences, parts, nextId, schemaUnique, accounts, passwords>>
    /\ \E fail \in Outcomes :
        LET id == ParseInt(req[s].id)
            bad == fail \/ id = NaN
            r1 == [StoreCall(req[s], bad) EXCEPT
                      !.target = Classify(projects, id, req[s].profile.id)]
            hit == ProjectUpdateTarget(id, r1.profile.id)
            data == UpdateData(r1.body, ProjectFields)
            new == {ApplyUpdate(p, data) : p \in hit}
        IN /\ faults' = Count(fail)
           /\ IF bad
              THEN /\ req' = [req EXCEPT ![s] = Respond(r1, 500, ErrorOut("upstream"))]
                   /\ UNCHANGED projects
              ELSE /\ projects' = (projects \ hit) \cup new
                   /\ IF new = {}
                      THEN req' = [req EXCEPT ![s] =
                               Respond(r1, 404, ErrorOut("Project not found"))]
                      ELSE req' = [req EXCEPT ![s] =
                               [r1 EXCEPT !.project = CHOOSE p \in new : TRUE,
                                          !.pc = IF r1.hasParts THEN "proj_rep_del"
                                                 ELSE "proj_load_parts"]]

\* from("project_parts").delete().eq("project_id", projectId)
PartsOfProject(projectId) == {x \in parts : x.project_id = projectId}

ProjectReplaceDelete(s) ==
    /\ req[s].pc = "proj_rep_del"
    /\ UNCHANGED <<profiles, experiences, projects, nextId, schemaUnique, accounts, passwords>>
    /\ \E fail \in Outcomes :
        LET r1 == StoreCall(req[s], fail)
        IN /\ faults' = Count(fail)
           /\ parts' = IF fail THEN parts ELSE parts \ PartsOfProject(ParseInt(r1.id))
           /\ IF Len(r1.partsIn) > 0
              THEN req' = [req EXCEPT ![s] = [r1 EXCEPT !.pc = "proj_rep_ins"]]
              ELSE req' = [req EXCEPT ![s] = Respond(r1, 200, ProjectOut(r1.project, <<>>))]

ProjectReplaceInsert(s) == PartsInsert(s, "proj_rep_ins", 200)

ProjectLoadParts(s) ==
    /\ req[s].pc = "proj_load_parts"
    /\ UNCHANGED <<tables, nextId, schemaUnique, accounts, passwords>>
    /\ \E fail \in Outcomes :
        LET r1 == StoreCall(req[s], fail)
        IN /\ faults' = Count(fail)
           /\ IF fail
              THEN req' = [req EXCEPT ![s] = Respond(r1, 200, ProjectOut(r1.project, <<>>))]
              ELSE \E q \in RowsAsc(PartsOfProject(ParseInt(r1.id))) :
                       req' = [req EXCEPT ![s] = Respond(r1, 200, ProjectOut(r1.project, q))]

\* DELETE: from("project_parts").delete().eq("project_id", projectId)
DeletedParts(projectId) == {x \in parts : x.project_id = projectId}

\* A handler that answers 500 when the delete of the parts fails: a variant in
\* which C29 does not hold.
ProjectDeletePartsBlocking(s) ==
    /\ req[s].pc = "proj_del_parts"
    /\ UNCHANGED <<profiles, experiences, projects, nextId, schemaUnique, accounts, passwords>>
    /\ \E fail \in Outcomes :
        LET id == ParseInt(req[s].id)
            bad == fail \/ id = NaN
            r1 == StoreCall(req[s], bad)
        IN /\ faults' = Count(fail)
           /\ parts' = IF bad THEN parts ELSE parts \ DeletedParts(id)
           /\ IF bad
              THEN req' = [req EXCEPT ![s] = Respond(r1, 500, ErrorOut("upstream"))]
              ELSE req' = [req EXCEPT ![s] = [r1 EXCEPT !.pc = "proj_del"]]

ProjectDeleteParts(s) ==
    /\ req[s].pc = "proj_del_parts"
    /\ UNCHANGED <<profiles, experiences, projects, nextId, schemaUnique, accounts, passwords>>
    /\ \E fail \in Outcomes :
        LET id == ParseInt(req[s].id)
            bad == fail \/ id = NaN
            r1 == StoreCall(req[s], bad)
        IN /\ faults' = Count(fail)
           /\ parts' = IF bad THEN parts ELSE parts \ DeletedParts(id)
           /\ req' = [req EXCEPT ![s] = [r1 EXCEPT !.pc = "proj_del"]]

\* DELETE: from("projects").delete().eq("id", projectId).eq("profile_id", profileId)
ProjectDeleteTarget(id, pid) == {p \in projects : p.id = id /\ p.profile_id = pid}

ProjectDelete(s) ==
    /\ req[s].pc = "proj_del"
    /\ UNCHANGED <<profiles, experiences, parts, nextId, schemaUnique, accounts, passwords>>
    /\ \E fail \in Outcomes :
        LET id == ParseInt(req[s].id)
            bad == fail \/ id = NaN
            r1 == [StoreCall(req[s], bad) EXCEPT
                      !.target = Classify(projects, id, req[s].profile.id)]
        IN /\ faults' = Count(fail)
           /\ IF bad
              THEN /\ req' = [req EXCEPT ![s] = Respond(r1, 500, ErrorOut("upstream"))]
                   /\ UNCHANGED projects
              ELSE /\ projects' = projects \ ProjectDeleteTarget(id, r1.profile.id)
                   /\ req' = [req EXCEPT ![s] = Respond(r1, 200, [t |-> "success"])]

-----------------------------------------------------------------------------
(* GET /api/public/portfolios/:id *)

\* The store's reading of a text as an integer column's value: all digits, or
\* the statement fails.
StoreInt(s) ==
    IF s # <<>> /\ \A i \in DOMAIN s : Digit(s[i]) # NaN THEN DigitsValue(s, 0) ELSE NaN

\* The select without its .eq("id", profileId): a variant in which C21 does
\* not hold.
ProfilesByIdUnfiltered(id) == profiles

\* select(...).eq("id", profileId).maybeSingle()
ProfilesById(id) == {p \in profiles : p.id = id}

PublicProfile(s) ==
    /\ req[s].pc = "pub_profile"
    /\ UNCHANGED <<tables, nextId, schemaUnique, accounts, passwords>>
    /\ \E fail \in Outcomes :
        LET id == StoreInt(req[s].id)
            bad == fail \/ id = NaN
            r1 == StoreCall(req[s], bad)
            res == MaybeSingle(ProfilesById(id))
        IN /\ faults' = Count(fail)
           /\ IF bad
              THEN req' = [req EXCEPT ![s] = Respond(r1, 500, ErrorOut("upstream"))]
              ELSE IF ProfilesById(id) = {}
                   THEN req' = [req EXCEPT ![s] =
                            Respond(r1, 404, ErrorOut("Profile not found"))]
                   ELSE req' = [req EXCEPT ![s] =
                            [r1 EXCEPT !.profile = res.data, !.pc = "pf_exps"]]

-----------------------------------------------------------------------------
(* GET /api/public/portfolios *)

\* .limit(5)
FeaturedLimit == 5

\* The select without its .eq("is_featured", true): a variant in which C22
\* does not hold.
FeaturedProfilesUnfiltered == profiles

\* from("profiles").select(...).eq("is_featured", true)
FeaturedProfiles == {p \in profiles : p.is_featured = TRUE}

\* .order("updated_at", {ascending: false}): the rows in some descending
\* order (ties in any order).
RECURSIVE UpdatedDesc(_)
UpdatedDesc(S) ==
    IF S = {} THEN {<<>>}
    ELSE UNION {{<<x>> \o q : q \in UpdatedDesc(S \ {x})} :
                   x \in {y \in S : \A z \in S : z.updated_at <= y.updated_at}}

\* .limit(n)
Limit(q, n) == IF Len(q) <= n THEN q ELSE SubSeq(q, 1, n)

\* select("id, user_id, first_name, last_name, about, avatar_url, is_featured")
PublicColumns(q) ==
    [i \in DOMAIN q |->
        [id |-> q[i].id, user_id |-> q[i].user_id, first_name |-> q[i].first_name,
         last_name |-> q[i].last_name, about |-> q[i].about,
         avatar_url |-> q[i].avatar_url, is_featured |-> q[i].is_featured]]

PublicFeatured(s) ==
    /\ req[s].pc = "pl_featured"
    /\ UNCHANGED <<tables, nextId, schemaUnique, accounts, passwords>>
    /\ \E fail \in Outcomes :
        LET r1 == StoreCall(req[s], fail)
        IN /\ faults' = Count(fail)
           /\ IF fail
              THEN req' = [req EXCEPT ![s] = Respond(r1, 500, ErrorOut("upstream"))]
              ELSE \E q \in UpdatedDesc(FeaturedProfiles) :
                       req' = [req EXCEPT ![s] =
                           [r1 EXCEPT !.featured = PublicColumns(Limit(q, FeaturedLimit)),
                                      !.pc = "pl_all"]]

PublicList(s) ==
    /\ req[s].pc = "pl_all"
    /\ UNCHANGED <<tables, nextId, schemaUnique, accounts, passwords>>
    /\ \E fail \in Outcomes :
        LET r1 == StoreCall(req[s], fail)
        IN /\ faults' = Count(fail)
           /\ IF fail
              THEN req' = [req EXCEPT ![s] = Respond(r1, 500, ErrorOut("upstream"))]
              ELSE \E q \in UpdatedDesc(profiles) :
                       req' = [req EXCEPT ![s] =
                           Respond(r1, 200, [t |-> "portfolios", featured |-> r1.featured,
                                             list |-> PublicColumns(q)])]

-----------------------------------------------------------------------------
(* POST /api/auth/register, in its two versions *)

RegisteredOut(r, token) == [t |-> "registered", token |-> token, user |-> r.user]

\* After the session token is there: the first version calls
\* getOrCreateProfileByUserId, the second selects and inserts by itself.
RegisterToken(r) ==
    IF r.kind = "register" THEN [r EXCEPT !.pc = "prov_select"]
    ELSE [r EXCEPT !.pc = "reg2_select"]

RegisterSignUp(s) ==
    /\ req[s].pc = "reg_signup"
    /\ UNCHANGED <<tables, nextId, schemaUnique>>
    /\ IF Falsy(Field(req[s].body, "email")) \/ Falsy(Field(req[s].body, "password"))
       THEN /\ req' = [req EXCEPT ![s] =
                    Respond(@, 400, ErrorOut("Email and password are required"))]
            /\ UNCHANGED <<accounts, passwords, faults>>
       ELSE \E fail \in Outcomes, session \in BOOLEAN :
            LET email == req[s].body["email"]
                error == fail \/ email \in accounts
                r1 == AuthCall(req[s], fail, IF error THEN "rejected"
                                             ELSE IF session THEN "session" ELSE "nosession")
                r2 == [r1 EXCEPT !.user = email]
            IN /\ faults' = Count(fail)
               /\ IF error
                  THEN /\ req' = [req EXCEPT ![s] = Respond(r1, 400, ErrorOut("upstream"))]
                       /\ UNCHANGED <<accounts, passwords>>
                  ELSE /\ accounts' = accounts \cup {email}
                       /\ passwords' = [passwords EXCEPT ![email] = req[s].body["password"]]
                       /\ IF session
                          THEN req' = [req EXCEPT ![s] = RegisterToken(r2)]
                          ELSE req' = [req EXCEPT ![s] = [r2 EXCEPT !.pc = "reg_login"]]

\* A follow-up login whose refusal is answered 401: a variant in which C18
\* does not hold.
RegisterLoginRefusedIs401(s) ==
    /\ req[s].pc = "reg_login"
    /\ UNCHANGED <<tables, nextId, schemaUnique, accounts, passwords>>
    /\ \E fail \in Outcomes, answer \in {"refused", "session", "nosession"} :
        LET r1 == AuthCall(req[s], fail, IF fail THEN "refused" ELSE answer)
        IN /\ faults' = Count(fail)
           /\ IF fail \/ answer = "refused"
              THEN req' = [req EXCEPT ![s] =
                       Respond(r1, 401, ErrorOut("Invalid email or password"))]
              ELSE IF answer = "nosession"
                   THEN req' = [req EXCEPT ![s] =
                            Respond(r1, 500, ErrorOut("User created but no session token"))]
                   ELSE req' = [req EXCEPT ![s] = RegisterToken(r1)]

\* signInWithPassword after a sign-up without session: refused (the email is
\* not confirmed), a session, or an answer without session.
RegisterLogin(s) ==
    /\ req[s].pc = "reg_login"
    /\ UNCHANGED <<tables, nextId, schemaUnique, accounts, passwords>>
    /\ \E fail \in Outcomes, answer \in {"refused", "session", "nosession"} :
        LET r1 == AuthCall(req[s], fail, IF fail THEN "refused" ELSE answer)
        IN /\ faults' = Count(fail)
           /\ IF fail \/ answer = "refused"
              THEN req' = [req EXCEPT ![s] = Respond(r1, 200, RegisteredOut(r1, Null))]
              ELSE IF answer = "nosession"
                   THEN req' = [req EXCEPT ![s] =
                            Respond(r1, 500, ErrorOut("User created but no session token"))]
                   ELSE req' = [req EXCEPT ![s] = RegisterToken(r1)]

Register2Select(s) ==
    /\ req[s].pc = "reg2_select"
    /\ UNCHANGED <<tables, nextId, schemaUnique, accounts, passwords>>
    /\ \E fail \in Outcomes :
        LET res == MaybeSingle(ProfilesOfUser(req[s].user))
            r1 == StoreCall(req[s], fail \/ res.error)
        IN /\ faults' = Count(fail)
           /\ IF fail \/ res.error \/ ProfilesOfUser(req[s].user) = {}
              THEN req' = [req EXCEPT ![s] = [r1 EXCEPT !.pc = "reg2_insert"]]
              ELSE req' = [req EXCEPT ![s] =
                       Respond(r1, 200, RegisteredOut(r1, TokenOf(r1.user)))]

Register2Insert(s) ==
    /\ req[s].pc = "reg2_insert"
    /\ UNCHANGED <<experiences, projects, parts, schemaUnique, accounts, passwords>>
    /\ \E fail \in Outcomes :
        LET conflict == ProfileInsertConflicts(req[s].user)
            r1 == StoreCall(req[s], fail \/ conflict)
        IN /\ faults' = Count(fail)
           /\ req' = [req EXCEPT ![s] = Respond(r1, 200, RegisteredOut(r1, TokenOf(r1.user)))]
           /\ IF fail \/ conflict
              THEN UNCHANGED <<profiles, nextId>>
              ELSE /\ profiles' = profiles \cup {NewProfileRow(req[s].user)}
                   /\ nextId' = [nextId EXCEPT !.profiles = @ + 1]

-----------------------------------------------------------------------------
(* PUT /api/me/profile *)

ProfileFields == {"first_name", "last_name", "about", "avatar_url", "is_featured"}

\* The object handed to update() as if its undefined members were sent as
\* null: a variant in which C11 does not hold.
ProfileUpdateDataAllFields(body, now) ==
    [f \in ProfileFields \cup {"updated_at"} |->
        IF f = "updated_at" THEN now ELSE IF f \in DOMAIN body THEN body[f] ELSE Null]

\* The object handed to update(): the body's members of the five names (an
\* undefined member is not part of the JSON that is sent) and updated_at.
ProfileUpdateData(body, now) ==
    [f \in ((DOMAIN body) \cap ProfileFields) \cup {"updated_at"} |->
        IF f = "updated_at" THEN now ELSE body[f]]

\* update({...}).eq("user_id", userId)
ProfileUpdateTarget(uid) == {p \in profiles : p.user_id = uid}

\* The handler has no call to getOrCreateProfileByUserId: without a row the
\* update matches nothing and the answer is 200 with null.  When the update
\* matches several rows the singular answer is an error, and the store keeps
\* or undoes the update.
ProfileUpdate(s) ==
    /\ req[s].pc = "handler" /\ req[s].kind = "putProfile"
    /\ UNCHANGED <<experiences, projects, parts, nextId, schemaUnique, accounts, passwords>>
    /\ \E fail \in Outcomes, now \in 1..MaxTime, kept \in BOOLEAN :
        LET hit == ProfileUpdateTarget(req[s].user)
            data == ProfileUpdateData(req[s].body, now)
            new == {ApplyUpdate(p, data) : p \in hit}
            res == MaybeSingle(new)
            r1 == StoreCall(req[s], fail \/ res.error)
        IN /\ faults' = Count(fail)
           /\ (kept = FALSE) => res.error
           /\ IF fail
              THEN /\ kept
                   /\ req' = [req EXCEPT ![s] = Respond(r1, 500, ErrorOut("upstream"))]
                   /\ UNCHANGED profiles
              ELSE IF res.error
                   THEN /\ req' = [req EXCEPT ![s] = Respond(r1, 500, ErrorOut("upstream"))]
                        /\ profiles' = IF kept THEN (profiles \ hit) \cup new ELSE profiles
                   ELSE /\ profiles' = (profiles \ hit) \cup new
                        /\ req' = [req EXCEPT ![s] =
                               Respond(r1, 200, [t |-> "profile", rows |-> new])]

-----------------------------------------------------------------------------
(* POST /api/auth/login, POST /api/auth/logout *)

Login(s) ==
    /\ req[s].pc = "login"
    /\ UNCHANGED <<tables, nextId, schemaUnique, accounts, passwords>>
    /\ IF Falsy(Field(req[s].body, "email")) \/ Falsy(Field(req[s].body, "password"))
       THEN /\ req' = [req EXCEPT ![s] =
                    Respond(@, 400, ErrorOut("Email and password are required"))]
            /\ UNCHANGED faults
       ELSE \E fail \in Outcomes, session \in BOOLEAN :
            LET email == req[s].body["email"]
                error == \/ fail
                         \/ email \notin accounts
                         \/ passwords[email] # req[s].body["password"]
                r1 == AuthCall(req[s], fail, IF error THEN "rejected"
                                             ELSE IF session THEN "session" ELSE "nosession")
            IN /\ faults' = Count(fail)
               /\ IF error
                  THEN req' = [req EXCEPT ![s] =
                           Respond(r1, 401, ErrorOut("Invalid email or password"))]
                  ELSE IF ~session
                       THEN req' = [req EXCEPT ![s] =
                                Respond(r1, 500, ErrorOut("Login succeeded but no token returned"))]
                       ELSE req' = [req EXCEPT ![s] =
                                Respond([r1 EXCEPT !.user = email], 200,
                                        RegisteredOut([r1 EXCEPT !.user = email], TokenOf(email)))]

Logout(s) ==
    /\ req[s].pc = "handler" /\ req[s].kind = "logout"
    /\ UNCHANGED <<tables, nextId, schemaUnique, accounts, passwords, faults>>
    /\ req' = [req EXCEPT ![s] = Respond(@, 200, [t |-> "success"])]

-----------------------------------------------------------------------------
(* POST /api/auth/reset-password-request, POST /api/auth/reset-password *)

\* An answer that tells an error of the auth service from a sent link: a
\* variant in which C19 does not hold.
ResetRequestOutRevealing(error) ==
    IF error THEN ErrorOut("upstream")
    ELSE [t |-> "sent", message |-> "If this email exists, a reset link has been sent."]

\* The body of the 200 answer, after an error of resetPasswordForEmail and
\* without one.
ResetRequestOut(error) ==
    IF error
    THEN [t |-> "sent", message |-> "If this email exists, a reset link has been sent."]
    ELSE [t |-> "sent", message |-> "If this email exists, a reset link has been sent."]

\* resetPasswordForEmail: the service may answer an error for an email it has
\* no account for, or for its own reasons.
ResetRequest(s) ==
    /\ req[s].pc = "reset_req"
    /\ UNCHANGED <<tables, nextId, schemaUnique, accounts, passwords>>
    /\ IF Falsy(Field(req[s].body, "email"))
       THEN /\ req' = [req EXCEPT ![s] = Respond(@, 400, ErrorOut("Email is required"))]
            /\ UNCHANGED faults
       ELSE \E fail \in Outcomes, reveals \in BOOLEAN :
            LET error == fail \/ (reveals /\ req[s].body["email"] \notin accounts)
                r1 == AuthCall(req[s], fail, IF error THEN "rejected" ELSE "sent")
            IN /\ faults' = Count(fail)
               /\ reveals => req[s].body["email"] \notin accounts
               /\ req' = [req EXCEPT ![s] = Respond(r1, 200, ResetRequestOut(error))]

\* A test that lets an answer without user pass: a variant in which C20 does
\* not hold.
ResetRejectedOnFailureOnly(fail, res) == fail

\* error || !data || !data.user
ResetRejected(fail, res) == fail \/ res.error \/ res.user = Null

\* const userId = data.user.id
ResetUserId(r) == r.user

ResetGetUser(s) ==
    /\ req[s].pc = "reset_get"
    /\ UNCHANGED <<tables, nextId, schemaUnique, accounts, passwords>>
    /\ IF Falsy(Field(req[s].body, "access_token")) \/ Falsy(Field(req[s].body, "new_password"))
       THEN /\ req' = [req EXCEPT ![s] =
                    Respond(@, 400, ErrorOut("access_token and new_password are required"))]
            /\ UNCHANGED faults
       ELSE \E fail \in Outcomes :
            LET res == AuthGetUser(req[s].body["access_token"])
                r1 == AuthCall(req[s], fail, IF fail \/ res.error THEN "rejected" ELSE "user")
            IN /\ faults' = Count(fail)
               /\ IF ResetRejected(fail, res)
                  THEN req' = [req EXCEPT ![s] =
                           Respond(r1, 401, ErrorOut("Invalid or expired token"))]
                  ELSE req' = [req EXCEPT ![s] =
                           [r1 EXCEPT !.user = res.user, !.pc = "reset_update"]]

\* supabase.auth.admin.updateUserById(userId, {password: new_password})
ResetUpdate(s) ==
    /\ req[s].pc = "reset_update"
    /\ UNCHANGED <<tables, nextId, schemaUnique, accounts>>
    /\ \E fail \in Outcomes :
        LET uid == ResetUserId(req[s])
            error == fail \/ uid \notin accounts
            r1 == AuthCall(req[s], fail, IF error THEN "rejected" ELSE "updated")
        IN /\ faults' = Count(fail)
           /\ IF error
              THEN /\ req' = [req EXCEPT ![s] = Respond(r1, 500, ErrorOut("upstream"))]
                   /\ UNCHANGED passwords
              ELSE /\ passwords' = [passwords EXCEPT ![uid] = req[s].body["new_password"]]
                   /\ req' = [req EXCEPT ![s] = Respond(r1, 200, [t |-> "success"])]

-----------------------------------------------------------------------------
(* Awaited calls that throw *)

\* Whether request r stands before an awaited call to the external service
\* (and not before a test that answers without one).
AtCall(r) ==
    CASE r.pc \in {"idle", "done", "unhandled"} -> FALSE
      [] r.pc = "auth" -> StartsWithBearer(r.hdr)
      [] r.pc = "handler" -> r.kind = "putProfile"
      [] r.pc \in {"reg_signup", "login"} ->
             ~Falsy(Field(r.body, "email")) /\ ~Falsy(Field(r.body, "password"))
      [] r.pc = "reset_req" -> ~Falsy(Field(r.body, "email"))
      [] r.pc = "reset_get" ->
             ~Falsy(Field(r.body, "access_token")) /\ ~Falsy(Field(r.body, "new_password"))
      [] OTHER -> TRUE

\* The awaited call of a handler throws: the handler's try/catch answers 500;
\* around getOrCreateProfileByUserId, register has a catch of its own.
HandlerThrows(s) ==
    /\ req[s].pc # "auth" /\ AtCall(req[s])
    /\ faults < MaxFaults
    /\ faults' = faults + 1
    /\ UNCHANGED <<tables, nextId, schemaUnique, accounts, passwords>>
    /\ LET r1 == [req[s] EXCEPT !.failed = TRUE]
       IN req' = [req EXCEPT ![s] =
                     IF r1.pc \in {"prov_select", "prov_insert"} THEN ProfileThrown(r1)
                     ELSE InternalError(r1)]

\* supabase.auth.getUser throws in requireAuth, which has no try/catch: the
\* promise of the async middleware is rejected.  An Express that awaits its
\* middleware hands the error to its error handler, which answers 500; one
\* that does not leaves the request without an answer.
GuardThrows(s) ==
    /\ req[s].pc = "auth" /\ AtCall(req[s])
    /\ faults < MaxFaults
    /\ faults' = faults + 1
    /\ UNCHANGED <<tables, nextId, schemaUnique, accounts, passwords>>
    /\ \E awaited \in BOOLEAN :
        LET r1 == [req[s] EXCEPT !.authCalls = @ + 1, !.failed = TRUE]
        IN req' = [req EXCEPT ![s] =
                      IF awaited THEN InternalError(r1) ELSE [r1 EXCEPT !.pc = "unhandled"]]

-----------------------------------------------------------------------------
(* The requests that arrive *)

\* Path parameters: the id of a row user B owns from the start, the id the
\* next created row takes, and one that is no number.
OwnedId == <<"1">>
FreshId == <<"2">>
NoNumberId == <<"x">>

ExperienceCreateBodies ==
    {[company |-> "c1", position |-> "p1"], [position |-> "p1"],
     [company |-> "c1", position |-> "p1", order_index |-> MaxOrder]}

ExperienceUpdateBodies ==
    {[company |-> "c2"], [description |-> "x2", order_index |-> MaxOrder]}

ProjectCreateBodies ==
    {[title |-> "t1"], [subtitle |-> "s1"],
     [title |-> "t1", subtitle |-> "s1", order_index |-> MaxOrder]}

\* `parts` of a project body: a list of part objects.
PartsList == <<[title |-> "a1", order_index |-> MaxOrder], [kind |-> "k2"]>>

Headers == {BearerHeader(TokenOf(u)) : u \in Users}

ArrivePortfolio(s) ==
    \E h \in Headers : Arrive(s, NewReq("getPortfolio", h, <<>>, <<>>, FALSE, <<>>))

ArriveExperience(s) ==
    \E h \in Headers :
        \/ \E b \in ExperienceCreateBodies :
               Arrive(s, NewReq("postExperience", h, <<>>, b, FALSE, <<>>))
        \/ \E i \in {OwnedId, FreshId}, b \in ExperienceUpdateBodies :
               Arrive(s, NewReq("putExperience", h, i, b, FALSE, <<>>))
        \/ \E i \in {OwnedId, NoNumberId} :
               Arrive(s, NewReq("deleteExperience", h, i, <<>>, FALSE, <<>>))

ArriveProject(s) ==
    \E h \in Headers :
        \/ \E b \in ProjectCreateBodies :
               Arrive(s, NewReq("postProject", h, <<>>, b, FALSE, <<>>))
        \/ Arrive(s, NewReq("postProject", h, <<>>, [title |-> "t1"], TRUE, PartsList))
        \/ \E i \in {OwnedId, FreshId} :
               \/ Arrive(s, NewReq("putProject", h, i, [title |-> "t2"], FALSE, <<>>))
               \/ Arrive(s, NewReq("putProject", h, i, [title |-> "t2"], TRUE, <<>>))
               \/ Arrive(s, NewReq("putProject", h, i,
                                   [subtitle |-> "s2", order_index |-> MaxOrder],
                                   TRUE, PartsList))
        \/ \E i \in {OwnedId, FreshId} :
               Arrive(s, NewReq("deleteProject", h, i, <<>>, FALSE, <<>>))

\* Authorization headers the guard or the auth service turns down.
BadSchemeHeaders ==
    {NoHeader, <<"Bearer">>, BasicHeader(TokenOf("B")), LowerHeader(TokenOf("B"))}

RefusedHeaders ==
    {BearerHeader(UnknownToken), <<"Bearer", " ", " ", TokenOf("B")>>}

ArriveRejected(s) ==
    \E h \in BadSchemeHeaders \cup RefusedHeaders :
        \/ Arrive(s, NewReq("getPortfolio", h, <<>>, <<>>, FALSE, <<>>))
        \/ Arrive(s, NewReq("deleteProject", h, OwnedId, <<>>, FALSE, <<>>))

NewOpenReq(kind, pc, id, body) ==
    [IdleReq EXCEPT !.kind = kind, !.pc = pc, !.id = id, !.body = body]

ArrivePublic(s) ==
    \E i \in {OwnedId, FreshId, NoNumberId} :
        Arrive(s, NewOpenReq("getPublicPortfolio", "pub_profile", i, <<>>))

RegisterBodies ==
    {[email |-> u, password |-> "pw"] : u \in Users} \cup {[email |-> "A"]}

ArriveRegister(s) ==
    \E k \in {"register", "register2"}, b \in RegisterBodies :
        Arrive(s, NewOpenReq(k, "reg_signup", <<>>, b))

ProfileBodies ==
    {[first_name |-> "f1"], [about |-> "a1", is_featured |-> FALSE], [avatar_url |-> Null]}

ArriveProfile(s) ==
    \E h \in Headers, b \in ProfileBodies :
        Arrive(s, NewReq("putProfile", h, <<>>, b, FALSE, <<>>))

ArriveLogout(s) ==
    \E h \in Headers \cup {BearerHeader(UnknownToken)} :
        Arrive(s, NewReq("logout", h, <<>>, <<>>, FALSE, <<>>))

\* An email the auth service has no account for.
UnknownEmail == "nobody"

LoginBodies ==
    {[email |-> "B", password |-> "pw"], [email |-> "B", password |-> "pw2"],
     [email |-> UnknownEmail, password |-> "pw"], [email |-> "B"]}

ArriveLogin(s) == \E b \in LoginBodies : Arrive(s, NewOpenReq("login", "login", <<>>, b))

ResetRequestBodies == {[email |-> "B"], [email |-> UnknownEmail], [email |-> ""]}

ArriveResetRequest(s) ==
    \E b \in ResetRequestBodies : Arrive(s, NewOpenReq("resetRequest", "reset_req", <<>>, b))

ResetBodies ==
    {[access_token |-> TokenOf("B"), new_password |-> "pw2"],
     [access_token |-> UnknownToken, new_password |-> "pw2"],
     [access_token |-> TokenOf("B")]}

ArriveReset(s) ==
    \E b \in ResetBodies : Arrive(s, NewOpenReq("resetPassword", "reset_get", <<>>, b))

-----------------------------------------------------------------------------
(* The system *)

\* User B has used the service before: a profile with an experience and a
\* project of two parts.  User A has an account and no profile yet.
SeedProfiles ==
    {[id |-> 1, user_id |-> "B", first_name |-> "", last_name |-> "", about |-> "",
      avatar_url |-> Null, is_featured |-> FALSE, updated_at |-> 0]}

SeedExperiences ==
    {[id |-> 1, profile_id |-> 1, company |-> "c0", position |-> "p0", start_date |-> "d0",
      end_date |-> Null, description |-> "x0", order_index |-> 1]}

SeedProjects ==
    {[id |-> 1, profile_id |-> 1, title |-> "t0", subtitle |-> "s0",
      cover_image_url |-> "i0", order_index |-> 1]}

SeedParts ==
    {[id |-> 1, project_id |-> 1, title |-> "a0", content |-> Null, image_url |-> Null,
      link_url |-> Null, kind |-> Null, order_index |-> 2],
     [id |-> 2, project_id |-> 1, title |-> "b0", content |-> Null, image_url |-> Null,
      link_url |-> Null, kind |-> Null, order_index |-> 1]}

Init ==
    /\ profiles = SeedProfiles
    /\ experiences = SeedExperiences
    /\ projects = SeedProjects
    /\ parts = SeedParts
    /\ nextId = [profiles |-> 2, experiences |-> 2, projects |-> 2, parts |-> 3]
    /\ schemaUnique \in BOOLEAN
    /\ accounts = Users
    /\ passwords = [u \in Users |-> "pw"]
    /\ req = [s \in Slots |-> IdleReq]
    /\ faults = 0

Provision(s) == ProfileSelect(s) \/ ProfileInsert(s)

Portfolio(s) == PortfolioExperiences(s) \/ PortfolioProjects(s) \/ PortfolioParts(s)

Experience(s) ==
    ExperienceLast(s) \/ ExperienceInsert(s) \/ ExperienceUpdate(s) \/ ExperienceDelete(s)

Project(s) ==
    \/ ProjectLast(s) \/ ProjectInsert(s) \/ ProjectInsertParts(s)
    \/ ProjectUpdate(s) \/ ProjectReplaceDelete(s) \/ ProjectReplaceInsert(s)
    \/ ProjectLoadParts(s)
    \/ ProjectDeleteParts(s) \/ ProjectDelete(s)

Register(s) ==
    RegisterSignUp(s) \/ RegisterLogin(s) \/ Register2Select(s) \/ Register2Insert(s)

\* The authenticated portfolio, experience and project routes, two requests
\* overlapping in any way.
Next ==
    \E s \in Slots :
        \/ ArrivePortfolio(s) \/ ArriveExperience(s) \/ ArriveProject(s)
        \/ ArriveRejected(s)
        \/ RequireAuth(s) \/ Provision(s)
        \/ Portfolio(s) \/ Experience(s) \/ Project(s)

Spec == Init /\ [][Next]_vars

\* The same routes, one request after the other.
Quiet == \A s \in Slots : req[s].pc \in {"idle", "done"}

NextSeq ==
    \E s \in Slots :
        \/ Quiet /\ (ArrivePortfolio(s) \/ ArriveExperience(s) \/ ArriveProject(s))
        \/ RequireAuth(s) \/ Provision(s)
        \/ Portfolio(s) \/ Experience(s) \/ Project(s)

SpecSeq == Init /\ [][NextSeq]_vars

\* Registration next to the first authenticated request of the new user: user
\* A has no account yet.
InitProv ==
    /\ profiles = SeedProfiles
    /\ experiences = SeedExperiences
    /\ projects = SeedProjects
    /\ parts = SeedParts
    /\ nextId = [profiles |-> 2, experiences |-> 2, projects |-> 2, parts |-> 3]
    /\ schemaUnique \in BOOLEAN
    /\ accounts = {"B"}
    /\ passwords = [u \in Users |-> IF u = "B" THEN "pw" ELSE Null]
    /\ req = [s \in Slots |-> IdleReq]
    /\ faults = 0

NextProv ==
    \E s \in Slots :
        \/ ArriveRegister(s) \/ ArrivePortfolio(s)
        \/ Register(s) \/ RequireAuth(s) \/ Provision(s) \/ Portfolio(s)

SpecProv == InitProv /\ [][NextProv]_vars

\* The two portfolio routes over stores of any content: profile 1 holds up to
\* MaxRows experiences, two projects and up to MaxRows parts, with any
\* display-orders.
SeedExperience(i, k) ==
    [id |-> i, profile_id |-> 1, company |-> "c0", position |-> "p0", start_date |-> "d0",
     end_date |-> Null, description |-> "x0", order_index |-> k]

SeedProject(i, k) ==
    [id |-> i, profile_id |-> 1, title |-> "t0", subtitle |-> "s0",
     cover_image_url |-> "i0", order_index |-> k]

SeedPart(i, j, k) ==
    [id |-> i, project_id |-> j, title |-> "a0", content |-> Null, image_url |-> Null,
     link_url |-> Null, kind |-> Null, order_index |-> k]

InitAgg ==
    /\ profiles = SeedProfiles
    /\ \E n \in 0..MaxRows :
          \E f \in [1..n -> 1..MaxOrder], g \in [1..n -> {1, 2}], h \in [{1, 2} -> 1..MaxOrder] :
              /\ experiences = {SeedExperience(i, f[i]) : i \in 1..n}
              /\ projects = {SeedProject(j, h[j]) : j \in {1, 2}}
              /\ parts = {SeedPart(i, g[i], f[i]) : i \in 1..n}
              /\ nextId = [profiles |-> 2, experiences |-> n + 1, projects |-> 3,
                           parts |-> n + 1]
    /\ schemaUnique \in BOOLEAN
    /\ accounts = Users
    /\ passwords = [u \in Users |-> "pw"]
    /\ req = [s \in Slots |-> IdleReq]
    /\ faults = 0

NextAgg ==
    \/ ArrivePortfolio(1) \/ ArrivePublic(1)
    \/ \E s \in Slots :
          PublicProfile(s) \/ RequireAuth(s) \/ Provision(s) \/ Portfolio(s)

SpecAgg == InitAgg /\ [][NextAgg]_vars

\* The profile and account routes: both users have a profile.
SeedProfileA ==
    [id |-> 2, user_id |-> "A", first_name |-> "f0", last_name |-> "l0", about |-> "a0",
     avatar_url |-> "v0", is_featured |-> TRUE, updated_at |-> 0]

InitAcct ==
    /\ profiles = SeedProfiles \cup {SeedProfileA}
    /\ experiences = SeedExperiences
    /\ projects = SeedProjects
    /\ parts = SeedParts
    /\ nextId = [profiles |-> 3, experiences |-> 2, projects |-> 2, parts |-> 3]
    /\ schemaUnique \in BOOLEAN
    /\ accounts = Users
    /\ passwords = [u \in Users |-> "pw"]
    /\ req = [s \in Slots |-> IdleReq]
    /\ faults = 0

Account(s) ==
    \/ ProfileUpdate(s) \/ Login(s) \/ Logout(s)
    \/ ResetRequest(s) \/ ResetGetUser(s) \/ ResetUpdate(s)

NextAcct ==
    \E s \in Slots :
        \/ ArriveProfile(s) \/ ArriveLogout(s) \/ ArriveLogin(s)
        \/ ArriveResetRequest(s) \/ ArriveReset(s)
        \/ RequireAuth(s) \/ Account(s)

SpecAcct == InitAcct /\ [][NextAcct]_vars

\* Every route, with calls that throw; user A has no account yet.
NextThrow ==
    \E s \in Slots :
        \/ ArrivePortfolio(s) \/ ArriveExperience(s) \/ ArriveProject(s)
        \/ ArrivePublic(s) \/ ArriveRegister(s)
        \/ ArriveProfile(s) \/ ArriveLogout(s) \/ ArriveLogin(s)
        \/ ArriveResetRequest(s) \/ ArriveReset(s)
        \/ RequireAuth(s) \/ Provision(s) \/ PublicProfile(s)
        \/ Portfolio(s) \/ Experience(s) \/ Project(s) \/ Register(s) \/ Account(s)
        \/ HandlerThrows(s) \/ GuardThrows(s)

SpecThrow == InitProv /\ [][NextThrow]_vars

\* The list of public portfolios over stores of any content: up to one
\* profile more than the limit of the featured list, all but at most one of
\* them featured, no updated_at carried by more than two of them.
SeedProfileOf(i, featured, stamp) ==
    [id |-> i, user_id |-> IF i = 1 THEN "B" ELSE IF i = 2 THEN "A" ELSE Null,
     first_name |-> "", last_name |-> "", about |-> "", avatar_url |-> Null,
     is_featured |-> featured, updated_at |-> stamp]

InitFeat ==
    /\ \E n \in 0..(FeaturedLimit + 1) :
          \E f \in [1..n -> 1..MaxStamp], k \in 0..n :
              /\ \A v \in 1..MaxStamp : Cardinality({i \in 1..n : f[i] = v}) <= 2
              /\ profiles = {SeedProfileOf(i, i # k, f[i]) : i \in 1..n}
              /\ nextId = [profiles |-> n + 1, experiences |-> 2, projects |-> 2, parts |-> 3]
    /\ experiences = SeedExperiences
    /\ projects = SeedProjects
    /\ parts = SeedParts
    /\ schemaUnique \in BOOLEAN
    /\ accounts = Users
    /\ passwords = [u \in Users |-> "pw"]
    /\ req = [s \in Slots |-> IdleReq]
    /\ faults = 0

ArrivePublicList(s) == Arrive(s, NewOpenReq("getPublicPortfolios", "pl_featured", <<>>, <<>>))

NextFeat ==
    \/ ArrivePublicList(1)
    \/ \E s \in Slots : PublicFeatured(s) \/ PublicList(s)

SpecFeat == InitFeat /\ [][NextFeat]_vars

\* Updates of user B's own experience 1 and project 1, two of them overlapping
\* in any way: bodies that set the same field to different values or set
\* disjoint fields, with two different parts lists.
OtherPartsList == <<[title |-> "b1"]>>

ConcurrentExperienceBodies ==
    {[company |-> "c2"], [company |-> "c3", position |-> "p3"],
     [description |-> "x2", order_index |-> MaxOrder]}

ConcurrentProjectBodies ==
    {[title |-> "t2"], [title |-> "t3", subtitle |-> "s3"],
     [subtitle |-> "s2", order_index |-> MaxOrder]}

ArriveUpdate(s) ==
    LET h == BearerHeader(TokenOf("B"))
    IN \/ \E b \in ConcurrentExperienceBodies :
              Arrive(s, NewReq("putExperience", h, OwnedId, b, FALSE, <<>>))
       \/ \E b \in ConcurrentProjectBodies :
              \/ Arrive(s, NewReq("putProject", h, OwnedId, b, FALSE, <<>>))
              \/ \E L \in {PartsList, OtherPartsList} :
                     Arrive(s, NewReq("putProject", h, OwnedId, b, TRUE, L))

NextUpd ==
    \E s \in Slots :
        \/ ArriveUpdate(s)
        \/ RequireAuth(s) \/ ProfileSelect(s)
        \/ ExperienceUpdate(s)
        \/ ProjectUpdate(s) \/ ProjectReplaceDelete(s) \/ ProjectReplaceInsert(s)
        \/ ProjectLoadParts(s)

SpecUpd == Init /\ [][NextUpd]_vars

-----------------------------------------------------------------------------
(* Properties *)

Done(s) == req[s].pc = "done"

Acts(s) == req'[s] # req[s]

\* The experiences, projects and parts user v owns through v's profiles.
ProfileIdsOf(v) == {p.id : p \in {x \in profiles : x.user_id = v}}
ExperiencesOf(v) == {e \in experiences : e.profile_id \in ProfileIdsOf(v)}
ProjectsOf(v) == {p \in projects : p.profile_id \in ProfileIdsOf(v)}
PartsOf(v) == {x \in parts : x.project_id \in {p.id : p \in ProjectsOf(v)}}
RowsOf(v) == <<ExperiencesOf(v), ProjectsOf(v), PartsOf(v)>>

\* C1: a DELETE /me/projects/:id that names a project of another user's
\* profile is answered with a failure, never with success, and the project
\* row stays (unless its owner deletes it).
C1_ForeignDeleteIsRefused ==
    \A s \in Slots :
        (req[s].kind = "deleteProject" /\ Done(s) /\ req[s].target = "foreign")
        => /\ req[s].status # 200
           /\ \/ \E p \in projects : p.id = ParseInt(req[s].id)
              \/ \E z \in Slots : /\ req[z].kind = "deleteProject"
                                   /\ req[z].target = "own"
                                   /\ req[z].id = req[s].id

\* C2: no step of a request authenticated as one user changes, deletes or
\* replaces an experience, project or part row that another user owns.
C2_OtherUsersRowsUntouched ==
    [][\A s \in Slots : \A v \in Users :
          (Acts(s) /\ req[s].user # Null /\ v # req[s].user) => RowsOf(v)' = RowsOf(v)]_vars

\* C3: a PUT of an experience or project whose id names no row of the caller's
\* profile changes no experience, project or part row and ends the request
\* with 404 (with 500 when the store fails the statement); with a parts list
\* too, no part is deleted or inserted.
UpdateMisses(s) ==
    \/ /\ req[s].pc = "exp_update"
       /\ ~\E e \in experiences :
              e.id = ParseInt(req[s].id) /\ e.profile_id = req[s].profile.id
    \/ /\ req[s].pc = "proj_update"
       /\ ~\E p \in projects :
              p.id = ParseInt(req[s].id) /\ p.profile_id = req[s].profile.id

C3_UpdateOfUnownedIdIs404 ==
    [][\A s \in Slots :
          (UpdateMisses(s) /\ Acts(s))
          => /\ req'[s].pc = "done"
             /\ <<experiences, projects, parts>>' = <<experiences, projects, parts>>
             /\ \/ req'[s].status = 404
                \/ req'[s].status = 500 /\ req'[s].failed]_vars

C3_Witness ==
    \E s \in Slots :
        /\ req[s].kind = "putProject" /\ Done(s) /\ req[s].hasParts
        /\ Len(req[s].partsIn) > 0
        /\ req[s].target = "foreign" /\ req[s].status = 404
        /\ parts = SeedParts

\* C4: in every reachable state the store holds at most one profile row per
\* user identifier.
C4_OneProfilePerUser ==
    \A u \in Users : Cardinality({p \in profiles : p.user_id = u}) <= 1

\* C5: of two successive getOrCreateProfileByUserId calls for one user of
\* which the first returned a profile, the second makes no insert and returns
\* the same row unchanged, and the user has that one profile row.
C5_SequentialGetOrCreateIdempotent ==
    \A s1, s2 \in Slots :
        (/\ s1 < s2 /\ req[s1].user # Null /\ req[s2].user = req[s1].user
         /\ req[s1].profile.id # 0)
        => /\ req[s2].pc # "prov_insert"
           /\ req[s2].profile.id # 0 => req[s2].profile = req[s1].profile
           /\ {p \in profiles : p.user_id = req[s1].user} = {req[s1].profile}

C5_Witness ==
    /\ req[1].user = "A" /\ req[2].user = "A" /\ Done(1) /\ Done(2)
    /\ req[1].profile.id = 2 /\ req[2].profile.id = 2
    /\ nextId.profiles = 3

\* C6: a request whose Authorization header is absent or does not start with
\* "Bearer " is answered 401 by the guard, with no call to the auth service or
\* the data store, and its handler does not run.
C6_BadSchemeRejectedLocally ==
    \A s \in Slots :
        (req[s].pc # "idle" /\ req[s].hdr \in BadSchemeHeaders)
        => /\ req[s].pc \in {"auth", "done"}
           /\ req[s].authCalls = 0 /\ req[s].storeCalls = 0
           /\ req[s].user = Null /\ req[s].profile.id = 0
           /\ Done(s) => req[s].status = 401

C6_Witness ==
    \E s \in Slots :
        /\ Done(s) /\ req[s].hdr = BasicHeader(TokenOf("B")) /\ req[s].status = 401
        /\ req[s].kind = "deleteProject" /\ projects = SeedProjects /\ parts = SeedParts

\* C7: a handler position, a data-store call or an answer other than 401 is
\* reached only after the auth service accepted this request's own bearer
\* token in this request; when the service fails the call or knows no user
\* for the token the answer is 401 and no data-store call is made.
BearerToken(s) == IF Len(req[s].hdr) >= 3 THEN req[s].hdr[3] ELSE ""

PastGuard(s) ==
    \/ req[s].pc \notin {"idle", "auth", "done"}
    \/ req[s].storeCalls > 0
    \/ Done(s) /\ req[s].status # 401

C7_HandlerOnlyAfterOwnValidation ==
    \A s \in Slots :
        /\ PastGuard(s)
           => /\ req[s].authCalls = 1
              /\ req[s].user \in accounts
              /\ BearerToken(s) = TokenOf(req[s].user)
        /\ (/\ req[s].authCalls = 1
            /\ \/ ~\E u \in accounts : BearerToken(s) = TokenOf(u)
               \/ req[s].failed /\ req[s].storeCalls = 0)
           => Done(s) /\ req[s].status = 401 /\ req[s].storeCalls = 0

C7_Witness ==
    /\ Done(1) /\ req[1].status = 200 /\ req[1].authCalls = 1
    /\ req[1].hdr = BearerHeader(TokenOf("B"))
    /\ req[2].hdr = req[1].hdr /\ req[2].authCalls = 1 /\ req[2].storeCalls > 0

\* C8: in a portfolio answer the experiences, the projects and the parts of
\* every project are each non-decreasing in display-order.
C8_PortfolioSequencesAscending ==
    \A s \in Slots :
        req[s].out.t = "portfolio"
        => /\ NonDecreasing(req[s].out.experiences)
           /\ NonDecreasing(req[s].out.projects)
           /\ \A i \in DOMAIN req[s].out.projects :
                 NonDecreasing(req[s].out.projects[i].parts)

C8_Witness ==
    \E s \in Slots :
        /\ req[s].out.t = "portfolio" /\ req[s].kind = "getPublicPortfolio"
        /\ Len(req[s].out.experiences) = 2
        /\ req[s].out.experiences[2].id < req[s].out.experiences[1].id
        /\ req[s].out.projects[1].order_index = req[s].out.projects[2].order_index
        /\ \E i \in DOMAIN req[s].out.projects :
              /\ Len(req[s].out.projects[i].parts) = 2
              /\ req[s].out.projects[i].parts[2].id < req[s].out.projects[i].parts[1].id

\* C9: a create without display-order stores the maximum display-order the
\* profile held for that kind when the handler looked it up, plus one, and 1
\* when it held none.
C9_CreateStoresNextOrder ==
    \A s \in Slots :
        (/\ req[s].kind \in {"postExperience", "postProject"}
         /\ Done(s) /\ req[s].status = 201 /\ "order_index" \notin DOMAIN req[s].body)
        => req[s].out.row.order_index =
               IF req[s].seen = {} THEN 1
               ELSE 1 + CHOOSE m \in req[s].seen : \A x \in req[s].seen : x <= m

\* C10: the update statement of a PUT leaves every field the body omits at
\* its stored value, in the row it updates.
OmittedKept(old, new, body) ==
    \A f \in (DOMAIN old) \ (DOMAIN body) : new[f] = old[f]

C10_OmittedFieldsKept ==
    [][\A s \in Slots :
          /\ (req[s].pc = "exp_update" /\ Acts(s))
             => \A e \in experiences : e.id = ParseInt(req[s].id)
                   => \E n \in experiences' : n.id = e.id /\ OmittedKept(e, n, req[s].body)
          /\ (req[s].pc = "proj_update" /\ Acts(s))
             => \A p \in projects : p.id = ParseInt(req[s].id)
                   => \E n \in projects' : n.id = p.id /\ OmittedKept(p, n, req[s].body)]_vars

C10_Witness ==
    \E s \in Slots :
        /\ req[s].kind = "putProject" /\ Done(s) /\ req[s].status = 200
        /\ req[s].body = [title |-> "t2"]
        /\ \E p \in projects :
              /\ p.id = ParseInt(req[s].id) /\ p.title = "t2"
              /\ p.subtitle = "s0" /\ p.cover_image_url = "i0" /\ p.order_index = 1

\* C11: the update of PUT /me/profile leaves every profile of another user as
\* it is, adds and removes no profile, and in the caller's profile changes no
\* field the body omits other than updated_at.
C11_ProfileUpdateKeepsOmitted ==
    [][\A s \in Slots :
          (req[s].pc = "handler" /\ req[s].kind = "putProfile" /\ Acts(s))
          => /\ {p.id : p \in profiles'} = {p.id : p \in profiles}
             /\ \A p \in profiles :
                   /\ p.user_id # req[s].user => p \in profiles'
                   /\ p.user_id = req[s].user
                      => \E n \in profiles' :
                            /\ n.id = p.id /\ n.user_id = p.user_id
                            /\ \A f \in ProfileFields \ DOMAIN req[s].body : n[f] = p[f]]_vars

C11_Witness ==
    \E s \in Slots :
        /\ req[s].kind = "putProfile" /\ Done(s) /\ req[s].status = 200
        /\ req[s].user = "A" /\ req[s].body = [first_name |-> "f1"]
        /\ \E p \in profiles :
              /\ p.user_id = "A" /\ p.first_name = "f1" /\ p.last_name = "l0"
              /\ p.about = "a0" /\ p.avatar_url = "v0" /\ p.is_featured /\ p.updated_at > 0
        /\ SeedProfiles \subseteq profiles

\* C12: when a PUT /me/projects/:id that supplies a parts list L is answered
\* 200, the parts stored for the project are exactly L: as many rows as L has
\* elements, the i-th with its explicit display-order if it has one and i
\* otherwise.
PartAsSupplied(x, p, i) ==
    /\ x.title = (IF Has(p, "title") THEN p["title"] ELSE Null)
    /\ x.kind = (IF Has(p, "kind") THEN p["kind"] ELSE Null)
    /\ x.order_index = (IF Has(p, "order_index") THEN p["order_index"] ELSE i)

StoredAsSupplied(rows, L) ==
    /\ Cardinality(rows) = Len(L)
    /\ \A i \in DOMAIN L : \E x \in rows : PartAsSupplied(x, L[i], i)

C12_PartsAreExactlyTheList ==
    [][\A s \in Slots :
          (/\ req[s].kind = "putProject" /\ req[s].hasParts /\ Acts(s)
           /\ req'[s].pc = "done" /\ req'[s].status = 200)
          => StoredAsSupplied({x \in parts' : x.project_id = ParseInt(req[s].id)},
                              req[s].partsIn)]_vars

\* C13: no step of a PUT /me/projects/:id without a parts field changes the
\* stored parts, and its 200 answer carries the parts the project holds, in
\* ascending display-order.
Elements(q) == {q[i] : i \in DOMAIN q}

C13_OmittedPartsKeptAndReturned ==
    [][\A s \in Slots :
          (req[s].kind = "putProject" /\ ~req[s].hasParts /\ Acts(s))
          => /\ parts' = parts
             /\ (req'[s].pc = "done" /\ req'[s].status = 200)
                => /\ NonDecreasing(req'[s].out.parts)
                   /\ Len(req'[s].out.parts) = Cardinality(Elements(req'[s].out.parts))
                   /\ Elements(req'[s].out.parts) =
                          {x \in parts : x.project_id = ParseInt(req[s].id)}]_vars

\* C14: a create of an experience without company or position, or of a
\* project without title, inserts no experience, project or part row and,
\* once past the guard, is answered 400 (500 when the store fails the lookup
\* or insert of the caller's profile, which the handler does first).
Missing(body, f) == f \notin DOMAIN body \/ body[f] = ""

InvalidCreate(s) ==
    \/ /\ req[s].kind = "postExperience"
       /\ Missing(req[s].body, "company") \/ Missing(req[s].body, "position")
    \/ /\ req[s].kind = "postProject"
       /\ Missing(req[s].body, "title")

C14_InvalidCreateIs400 ==
    [][\A s \in Slots :
          (InvalidCreate(s) /\ Acts(s))
          => /\ <<experiences, projects, parts>>' = <<experiences, projects, parts>>
             /\ req'[s].pc \in {"auth", "prov_select", "prov_insert", "done"}
             /\ (req'[s].pc = "done" /\ req[s].user # Null)
                => \/ req'[s].status = 400
                   \/ req'[s].status = 500 /\ req'[s].failed]_vars

C14_Witness ==
    \E s1, s2 \in Slots :
        /\ req[s1].kind = "postExperience" /\ req[s1].body = [position |-> "p1"]
        /\ Done(s1) /\ req[s1].status = 400 /\ req[s1].user = "A"
        /\ req[s2].kind = "postProject" /\ req[s2].body = [subtitle |-> "s1"]
        /\ Done(s2) /\ req[s2].status = 400
        /\ experiences = SeedExperiences /\ projects = SeedProjects /\ parts = SeedParts

\* C15: a request one of whose calls to the data store was answered with an
\* error is answered 500, unless the call was the profile creation of a
\* registration or a deletion of a project's parts.
ToleratedCalls(r) ==
    IF r.kind \in {"register", "register2"}
    THEN {"prov_select", "prov_insert", "reg2_select", "reg2_insert"}
    ELSE {"proj_del_parts", "proj_rep_del"}

C15_StoreErrorIsAnswered500 ==
    \A s \in Slots :
        (Done(s) /\ req[s].erredAt \ ToleratedCalls(req[s]) # {})
        => req[s].status = 500

\* C16: no request is left without an answer: no error escapes a handler or
\* the guard unhandled, whatever the external service does.
C16_NoRequestLeftUnanswered ==
    \A s \in Slots : req[s].pc # "unhandled"

\* C17: the profile a GET /me/portfolio answers carries the user identifier
\* of the registration answer that issued the request's token, also when the
\* profile creation of that registration failed.
C17_PortfolioProfileIsTheRegisteredUsers ==
    \A s, z \in Slots :
        (/\ req[s].kind = "getPortfolio" /\ Done(s) /\ req[s].status = 200
         /\ req[z].kind \in {"register", "register2"} /\ Done(z) /\ req[z].status = 200
         /\ req[z].out.token = BearerToken(s))
        => req[s].out.profile.user_id = req[z].out.user

C17_Witness ==
    \E s, z \in Slots :
        /\ req[z].kind \in {"register", "register2"} /\ Done(z) /\ req[z].status = 200
        /\ req[z].out.token = TokenOf("A") /\ req[z].out.user = "A"
        /\ req[z].erredAt # {}
        /\ req[s].kind = "getPortfolio" /\ Done(s) /\ req[s].status = 200
        /\ BearerToken(s) = TokenOf("A")
        /\ req[s].out.profile.user_id = "A" /\ req[s].out.profile.id = 2

\* C18: the answer of POST /auth/register follows from the outcome: 400 and
\* no sign-up when email or password is missing, 400 when the sign-up is
\* rejected, 200 with token null when the sign-up gave no session and the
\* follow-up login is refused, 500 when neither gave a session, and 200 with
\* a token otherwise.
RegisterAnswerFor(r) ==
    IF Missing(r.body, "email") \/ Missing(r.body, "password") THEN <<400, "error">>
    ELSE IF r.answers = <<"rejected">> THEN <<400, "error">>
    ELSE IF r.answers = <<"nosession", "refused">> THEN <<200, "notoken">>
    ELSE IF r.answers = <<"nosession", "nosession">> THEN <<500, "error">>
    ELSE <<200, "token">>

RegisterAnswerOf(r) ==
    <<r.status,
      IF r.out.t = "error" THEN "error"
      ELSE IF r.out.t = "registered" /\ r.out.token = Null THEN "notoken"
      ELSE IF r.out.t = "registered" /\ r.out.token = TokenOf(r.out.user) THEN "token"
      ELSE "other">>

C18_RegisterStatusFollowsOutcome ==
    \A s \in Slots :
        (req[s].kind \in {"register", "register2"} /\ Done(s))
        => /\ RegisterAnswerOf(req[s]) = RegisterAnswerFor(req[s])
           /\ (Missing(req[s].body, "email") \/ Missing(req[s].body, "password"))
              => req[s].authCalls = 0

C18_Witness ==
    \E s, z \in Slots :
        /\ req[s].kind = "register" /\ Done(s) /\ req[s].answers = <<"nosession", "refused">>
        /\ req[s].status = 200 /\ req[s].out.token = Null
        /\ req[z].kind = "register2" /\ Done(z) /\ req[z].answers = <<"rejected">>
        /\ req[z].status = 400

\* C19: two reset-password-request requests that carry an email get the same
\* answer, the 200 success message, whether or not the auth service knows the
\* email or answers an error.
C19_ResetRequestAnswersAlike ==
    \A s, z \in Slots :
        (/\ req[s].kind = "resetRequest" /\ Done(s) /\ ~Missing(req[s].body, "email")
         /\ req[z].kind = "resetRequest" /\ Done(z) /\ ~Missing(req[z].body, "email"))
        => /\ req[s].status = 200 /\ req[s].out.t = "sent"
           /\ req[s].status = req[z].status /\ req[s].out = req[z].out

C19_Witness ==
    \E s, z \in Slots :
        /\ req[s].kind = "resetRequest" /\ Done(s) /\ req[s].body = [email |-> "B"]
        /\ req[s].answers = <<"sent">>
        /\ req[z].kind = "resetRequest" /\ Done(z) /\ req[z].body = [email |-> UnknownEmail]
        /\ req[z].answers = <<"rejected">>
        /\ req[s].out = req[z].out /\ req[s].status = 200 /\ req[z].status = 200

\* C20: a reset-password whose token the auth service resolves to no user is
\* answered 401, and a password changes only in the step of a reset-password
\* request, for the user its token resolved to, to the password it carries.
C20_ResetOnlyForResolvedUser ==
    [][/\ \A s \in Slots :
             (/\ req[s].kind = "resetPassword" /\ Acts(s)
              /\ req'[s].answers = <<"rejected">>)
             => /\ req'[s].pc = "done" /\ req'[s].status = 401
                /\ passwords' = passwords
       /\ \A u \in Users :
             passwords'[u] # passwords[u]
             => \E s \in Slots :
                   /\ req[s].kind = "resetPassword" /\ Acts(s)
                   /\ req[s].body["access_token"] = TokenOf(u) /\ u \in accounts
                   /\ passwords'[u] = req[s].body["new_password"]
                   /\ \A v \in Users \ {u} : passwords'[v] = passwords[v]]_vars

C20_Witness ==
    \E s, z \in Slots :
        /\ req[s].kind = "resetPassword" /\ Done(s) /\ req[s].status = 401
        /\ req[s].body["access_token"] = UnknownToken
        /\ req[z].kind = "resetPassword" /\ Done(z) /\ req[z].status = 200
        /\ passwords = [u \in Users |-> IF u = "B" THEN "pw2" ELSE "pw"]

\* C21: a GET /public/portfolios/:id whose id names no profile ends with its
\* first call to the store, answered 404 with an error body (500 when the
\* store fails that call), and changes no table.
C21_UnknownPublicIdIs404 ==
    [][\A s \in Slots :
          (/\ req[s].kind = "getPublicPortfolio" /\ req[s].pc = "pub_profile" /\ Acts(s)
           /\ ~\E p \in profiles : p.id = StoreInt(req[s].id))
          => /\ req'[s].pc = "done" /\ req'[s].storeCalls = 1
             /\ req'[s].out.t = "error"
             /\ \/ req'[s].status = 404
                \/ req'[s].status = 500 /\ req'[s].failed
             /\ tables' = tables]_vars

C21_Witness ==
    \E s \in Slots :
        /\ req[s].kind = "getPublicPortfolio" /\ Done(s) /\ req[s].id = FreshId
        /\ req[s].status = 404 /\ req[s].out = ErrorOut("Profile not found")
        /\ req[s].storeCalls = 1 /\ profiles = SeedProfiles

\* C22: in the answer of GET /public/portfolios, featured holds at most five
\* profiles, each of them stored as featured, in descending updated_at order,
\* and a featured profile that is left out is no more recent than any that is
\* included.
StampOf(id) == (CHOOSE p \in profiles : p.id = id).updated_at

C22_FeaturedAreTheFiveMostRecent ==
    \A s \in Slots :
        req[s].out.t = "portfolios"
        => LET F == req[s].out.featured
           IN /\ Len(F) <= 5
              /\ \A i \in DOMAIN F :
                    /\ F[i].is_featured = TRUE
                    /\ \E p \in profiles : p.id = F[i].id /\ p.is_featured = TRUE
              /\ \A i, j \in DOMAIN F :
                    i < j => F[i].id # F[j].id /\ StampOf(F[i].id) >= StampOf(F[j].id)
              /\ \A p \in profiles :
                    (p.is_featured = TRUE /\ \A i \in DOMAIN F : F[i].id # p.id)
                    => /\ Len(F) = 5
                       /\ \A i \in DOMAIN F : StampOf(F[i].id) >= p.updated_at

C22_Witness ==
    \E s \in Slots :
        /\ req[s].out.t = "portfolios"
        /\ Len(req[s].out.featured) = 5 /\ Len(req[s].out.list) = 6
        /\ Cardinality({p \in profiles : p.is_featured = TRUE}) = 6
        /\ \E p \in profiles :
              /\ \A i \in 1..5 : req[s].out.featured[i].id # p.id
              /\ StampOf(req[s].out.featured[5].id) = p.updated_at

\* C23: a request whose profile insert meets the unique-constraint violation
\* left by a concurrent first request of the same user goes on with the
\* existing row: it is not answered with an error and it uses the profile
\* identifier of the user's stored row.
C23_InsertConflictFetchesExistingRow ==
    \A s \in Slots :
        (/\ Done(s) /\ req[s].user # Null /\ schemaUnique /\ faults = 0
         /\ "prov_insert" \in req[s].erredAt)
        => /\ req[s].status # 500
           /\ \E p \in profiles : p.user_id = req[s].user /\ p.id = req[s].profile.id

\* C24: every stored project part references a stored project.
C24_EveryPartHasItsProject ==
    \A x \in parts : \E p \in projects : p.id = x.project_id

\* C25: once two PUT /me/projects/:id of the same project that both supply a
\* parts list have both been answered 200 with no store call of either
\* failing, the parts stored for the project are exactly one of the two lists.
C25_ConcurrentReplaceLeavesOneList ==
    \A s1, s2 \in Slots :
        (/\ s1 # s2
         /\ \A s \in {s1, s2} :
               /\ req[s].kind = "putProject" /\ req[s].hasParts /\ Done(s)
               /\ req[s].status = 200 /\ req[s].erredAt = {} /\ ~req[s].failed
         /\ req[s1].id = req[s2].id)
        => LET stored == {x \in parts : x.project_id = ParseInt(req[s1].id)}
           IN \/ StoredAsSupplied(stored, req[s1].partsIn)
              \/ StoredAsSupplied(stored, req[s2].partsIn)

\* C26: in the answer of the aggregation each project carries a parts list,
\* which holds exactly the stored parts of that project, each once, and every
\* part fetched for the listed projects appears under exactly one project.
C26_PartsGroupedByProject ==
    [][\A s \in Slots :
          (/\ req[s].pc = "pf_parts" /\ Acts(s) /\ req'[s].status = 200)
          => LET projs == req[s].projs
                 out == req'[s].out.projects
                 fetched == {x \in parts : \E i \in DOMAIN projs : x.project_id = projs[i].id}
             IN /\ Len(out) = Len(projs)
                /\ \A i \in DOMAIN out :
                      /\ "parts" \in DOMAIN out[i]
                      /\ out[i].id = projs[i].id
                      /\ Len(out[i].parts) = Cardinality(Elements(out[i].parts))
                      /\ Elements(out[i].parts) = {x \in parts : x.project_id = projs[i].id}
                /\ \A x \in fetched :
                      Cardinality({i \in DOMAIN out : x \in Elements(out[i].parts)}) = 1]_vars

C26_Witness ==
    \E s \in Slots :
        /\ req[s].out.t = "portfolio" /\ Len(req[s].out.projects) = 2
        /\ \E i, j \in DOMAIN req[s].out.projects :
              /\ req[s].out.projects[i].parts = <<>>
              /\ Len(req[s].out.projects[j].parts) = 2

\* C27: when a project of the fetched project list is no longer stored as the
\* aggregator fetches the parts, and the store serves that fetch, the answer
\* is 200 and lists the project with an empty parts list.
C27_DeletedProjectListedWithoutParts ==
    [][\A s \in Slots :
          (/\ req[s].pc = "pf_parts" /\ Acts(s) /\ "pf_parts" \notin req'[s].erredAt)
          => \A i \in DOMAIN req[s].projs :
                (~\E p \in projects : p.id = req[s].projs[i].id)
                => /\ req'[s].status = 200
                   /\ req'[s].out.projects[i].id = req[s].projs[i].id
                   /\ req'[s].out.projects[i].parts = <<>>]_vars

\* C28: an insert of a create that the store serves adds its row with the
\* display-order the handler computed and is answered 201, also when the
\* profile already holds a row with that display-order, as after two
\* concurrent creates that read the same maximum.
C28_DuplicateOrderIsStored ==
    [][\A s \in Slots :
          /\ (req[s].pc = "exp_insert" /\ Acts(s) /\ "exp_insert" \notin req'[s].erredAt)
             => /\ req'[s].status = 201
                /\ experiences \subseteq experiences'
                /\ \E e \in experiences' \ experiences :
                      /\ e = req'[s].out.row /\ e.profile_id = req[s].profile.id
                      /\ e.order_index = req[s].fin
          /\ (req[s].pc = "proj_insert" /\ Acts(s) /\ "proj_insert" \notin req'[s].erredAt)
             => /\ req'[s].status = 201 \/ req'[s].pc = "proj_ins_parts"
                /\ projects \subseteq projects'
                /\ \E p \in projects' \ projects :
                      /\ p.profile_id = req[s].profile.id /\ p.order_index = req[s].fin]_vars

C28_Witness ==
    \E s1, s2 \in Slots :
        /\ s1 # s2
        /\ \A s \in {s1, s2} :
              /\ req[s].kind = "postExperience" /\ Done(s) /\ req[s].status = 201
              /\ "order_index" \notin DOMAIN req[s].body
              /\ req[s].out.row \in experiences
        /\ req[s1].seen = req[s2].seen
        /\ req[s1].out.row.id # req[s2].out.row.id
        /\ req[s1].out.row.profile_id = req[s2].out.row.profile_id
        /\ req[s1].out.row.order_index = req[s2].out.row.order_index

\* C29: a DELETE /me/projects/:id first deletes the parts of the project,
\* leaving the project row, and goes on to the delete of the project row
\* whether or not the first delete failed; the delete of a project of the
\* caller that the store serves removes the row and is answered 200, also
\* after a failed delete of the parts.
C29_PartsFirstAndFailureDoesNotBlock ==
    [][\A s \in Slots :
          (req[s].kind = "deleteProject" /\ Acts(s))
          => /\ req[s].pc = "proj_del_parts"
                => /\ req'[s].pc = "proj_del" /\ projects' = projects
                   /\ "proj_del_parts" \notin req'[s].erredAt
                      => ~\E x \in parts' : x.project_id = ParseInt(req[s].id)
             /\ req[s].pc = "proj_del"
                => /\ req[s].storeCalls >= 2
                   /\ ((\E p \in projects : p.id = ParseInt(req[s].id)
                                            /\ p.profile_id = req[s].profile.id)
                       /\ "proj_del" \notin req'[s].erredAt)
                      => /\ req'[s].status = 200 /\ req'[s].out = [t |-> "success"]
                         /\ ~\E p \in projects' : p.id = ParseInt(req[s].id)]_vars

C29_Witness ==
    \E s \in Slots :
        /\ req[s].kind = "deleteProject" /\ Done(s) /\ req[s].status = 200
        /\ req[s].target = "own" /\ req[s].erredAt = {"proj_del_parts"}
        /\ ~\E p \in projects : p.id = ParseInt(req[s].id)
        /\ \E x \in parts : x.project_id = ParseInt(req[s].id)

\* C30: when the store applies a partial update of an experience or project
\* row after another update of the same row, the row then holds, for each
\* field, the value of the later update if it sets the field, else the value
\* of the earlier update if that one sets it, else the value the row had
\* before both.
Updated(s) ==
    \/ req[s].kind \in {"putExperience", "putProject"} /\ Done(s) /\ req[s].status = 200
    \/ req[s].pc \in {"proj_rep_del", "proj_rep_ins", "proj_load_parts"}

LastWriteWins(row, before, later, earlier, fields) ==
    /\ \A f \in fields :
          row[f] = IF Has(later, f) THEN later[f]
                   ELSE IF Has(earlier, f) THEN earlier[f] ELSE before[f]
    /\ \A f \in (DOMAIN row) \ fields : row[f] = before[f]

C30_FieldLevelLastWriteWins ==
    [][\A s, s2 \in Slots :
          (/\ s # s2 /\ req[s].kind = req[s2].kind /\ req[s].id = req[s2].id
           /\ Updated(s2) /\ Acts(s) /\ req[s].pc \notin req'[s].erredAt)
          => /\ req[s].pc = "exp_update"
                => \E e \in experiences', b \in SeedExperiences :
                      /\ e.id = ParseInt(req[s].id) /\ b.id = e.id
                      /\ LastWriteWins(e, b, req[s].body, req[s2].body, ExperienceFields)
             /\ req[s].pc = "proj_update"
                => \E p \in projects', b \in SeedProjects :
                      /\ p.id = ParseInt(req[s].id) /\ b.id = p.id
                      /\ LastWriteWins(p, b, req[s].body, req[s2].body, ProjectFields)]_vars

C30_Witness ==
    /\ \A s \in Slots : req[s].kind = "putExperience" /\ Done(s) /\ req[s].status = 200
    /\ req[1].body = [company |-> "c2"]
    /\ req[2].body = [company |-> "c3", position |-> "p3"]
    /\ \E e \in experiences :
          /\ e.id = 1 /\ e.company = "c2" /\ e.position = "p3" /\ e.description = "x0"

====
